---- MODULE Spec2Model ----
(***************************************************************************)
(* A model of unity-cache-server: the three storage backends (handlers/    *)
(* nop.rs, memory.rs, fs.rs) behind the Handler trait, and the protocol     *)
(* engine handle() of serve.rs.                                             *)
(*                                                                          *)
(* Bytes are naturals 0..255 (ASCII where the code uses character           *)
(* literals).  Option<T> is a sequence of length 0 (None) or 1 (Some).      *)
(* Result<T> is a tuple <<"Ok", ...>> or <<"Err", variant, ...>>.            *)
(***************************************************************************)
EXTENDS Integers, Sequences, FiniteSets, TLC

VARIABLES
    backend,        \* which Handler implementation serves: "nop", "memory", "fs"
    max_file_size,  \* MemoryHandler / FileSystemHandler .max_file_size
    transaction,    \* per handle: Mutex<Option<Transaction<T>>>
    database,       \* MemoryHandler.database: CacheKey -> Bytes (shared by clones)
    files,          \* the final artifact files under base_path: path -> content
    tempfiles,      \* the staging files under temp_path: token -> content
    removing,       \* staging tokens whose removal task Drop has spawned
    committing,     \* per handle: the rest of a FileSystemHandler commit in progress
    ret,            \* the call that returned last: its handle, result and bytes consumed
    putlog,         \* per handle and kind: what the last successful put declared
    writer,         \* per cache key: the commit that wrote it last, and the one before
    opened,         \* per handle: start_transaction was called and not yet ended
    nops,           \* number of handler calls issued so far
    budget,         \* number of handler calls a behaviour may issue
    rd,             \* connection: bytes sent by the client and not yet read
    closed,         \* connection: the client has shut down its sending side
    pc,             \* connection: where handle() stands
    vbuf,           \* connection: read_version's buffer after its first read
    out,            \* connection: bytes flushed to the client
    wbuf,           \* connection: bytes written but not yet flushed
    result,         \* connection: what handle() returned
    hit,            \* connection: the artifact a 'g' found and has still to copy
    ncmd,           \* connection: number of command bytes read by the loop
    nsent           \* connection: number of client sends so far

backendVars == <<backend, max_file_size, transaction, database, files, tempfiles, removing, committing, ret, putlog, writer, opened, nops, budget>>

connVars == <<rd, closed, pc, vbuf, out, wbuf, result, hit, ncmd, nsent>>

vars == <<backendVars, connVars>>

---------------------------------------------------------------------------
(* Bounds of the model *)

NumHandles == 2

MaxLen == 1

MaxByte == 2

MaxOps == 4

MaxFile == 1

\* how many calls the racing handles make in all
MaxRaceOps == 7

\* the length of the payloads of the racing puts
RaceLen == 2

\* how many gets the client of a connection sends while another connection commits
MaxGets == 2

\* how many calls the handles make on the keys whose file names are compared
MaxPathOps == 6

\* how many calls two handles make that commit the same kinds of one key
MaxCommitOps == 9

\* how many calls one handle makes whose puts may fail
MaxFailOps == 5

---------------------------------------------------------------------------
(* lib.rs: the codec and the artifact kinds *)

GUID_LENGTH == 16

HASH_LENGTH == 16

LENGTH == 3

Min(a, b) == IF a < b THEN a ELSE b

None == <<>>

Some(v) == <<v>>

UnityFileType == {"Asset", "Info", "Resource"}

to_u8(t) == CASE t = "Asset" -> 0 [] t = "Info" -> 1 [] t = "Resource" -> 2

try_from_u8(b) == CASE b = 0 -> Some("Asset") [] b = 1 -> Some("Info") [] b = 2 -> Some("Resource") [] OTHER -> None

\* "bin", "info", "resource" as ASCII
to_ext(t) == CASE t = "Asset" -> <<98, 105, 110>> [] t = "Info" -> <<105, 110, 102, 111>> [] t = "Resource" -> <<114, 101, 115, 111, 117, 114, 99, 101>>

\* b'a', b'i', b'r'
to_ext_char(t) == CASE t = "Asset" -> 97 [] t = "Info" -> 105 [] t = "Resource" -> 114

\* a try_from_ext_char that takes every unknown byte for an asset
try_from_ext_char_lenient(b) == CASE b = 97 -> Some("Asset") [] b = 105 -> Some("Info") [] b = 114 -> Some("Resource") [] OTHER -> Some("Asset")

try_from_ext_char(b) == CASE b = 97 -> Some("Asset") [] b = 105 -> Some("Info") [] b = 114 -> Some("Resource") [] OTHER -> None

\* one digit of {:02x}: '0'..'9' are 48..57, 'a'..'f' are 97..102
HexDigit(n) == IF n < 10 THEN 48 + n ELSE 87 + n

\* two digits for every byte, high nibble first
encode_hex(bytes) ==
    [i \in 1..(2 * Len(bytes)) |->
        IF i % 2 = 1 THEN HexDigit(bytes[(i + 1) \div 2] \div 16) ELSE HexDigit(bytes[i \div 2] % 16)]

u32_to_be_hex_string(n) ==
    encode_hex(<<(n \div 16777216) % 256, (n \div 65536) % 256, (n \div 256) % 256, n % 256>>)

---------------------------------------------------------------------------
(* The inputs the model draws from *)

Handles == 1..NumHandles

PayloadBytes == 1..MaxByte

\* what a reader handed to put can deliver before its end
Streams == UNION {[1..n -> PayloadBytes] : n \in 0..MaxLen}

Sizes == 0..(MaxLen + 1)

\* a 16-byte identifier whose first and last bytes are b and c
Id16(b, c) == [i \in 1..GUID_LENGTH |-> IF i = 1 THEN b ELSE IF i = GUID_LENGTH THEN c ELSE 0]

\* the (guid, hash) pairs the clients use
Ids == {<<Id16(171, 1), Id16(17, 17)>>, <<Id16(171, 2), Id16(17, 17)>>}

\* identifiers whose hex strings share digits (01..10, 10..01, 11..00) and which
\* occur both as a guid and as a hash
PathGuids == {Id16(1, 16), Id16(16, 1), Id16(17, 0)}

PathHashes == {Id16(1, 16), Id16(17, 0)}

PathIds == PathGuids \X PathHashes

Backends == {"nop", "memory", "fs"}

---------------------------------------------------------------------------
(* Results *)

OkUnit == <<"Ok">>

OkVal(v) == <<"Ok", v>>

ErrFileTooLarge(max_size, size) == <<"Err", "FileTooLarge", max_size, size>>

ErrNotInTransaction == <<"Err", "NotInTransaction">>

ErrIo(kind) == <<"Err", "IoError", kind>>

IsOk(r) == r[1] = "Ok"

IsErr(r) == r[1] = "Err"

---------------------------------------------------------------------------
(* handlers/mod.rs: TransactionFiles and Transaction *)

TransactionFiles_new == [i \in 1..LENGTH |-> None]

Transaction_new(guid, hash) == [guid |-> guid, hash |-> hash, files |-> TransactionFiles_new]

\* a set that ignores the kind and always fills the first slot
set_first_slot(fs, typ, value) == [fs EXCEPT ![1] = Some(value)]

\* a set that keeps what an occupied slot holds
set_if_vacant(fs, typ, value) ==
    IF fs[to_u8(typ) + 1] = None THEN [fs EXCEPT ![to_u8(typ) + 1] = Some(value)] ELSE fs

set(fs, typ, value) == [fs EXCEPT ![to_u8(typ) + 1] = Some(value)]

\* a take_all that stops after the first occupied slot
take_first(fs) ==
    LET occupied == SelectSeq([i \in 1..Len(fs) |-> i], LAMBDA i : fs[i] # None)
    IN  [k \in 1..Min(1, Len(occupied)) |-> <<try_from_u8(occupied[k] - 1)[1], fs[occupied[k]][1]>>]

\* the occupied slots in index order, as <<kind, value>> pairs
take_all(fs) ==
    LET occupied == SelectSeq([i \in 1..Len(fs) |-> i], LAMBDA i : fs[i] # None)
    IN  [k \in 1..Len(occupied) |-> <<try_from_u8(occupied[k] - 1)[1], fs[occupied[k]][1]>>]

\* the values held by the occupied slots
Held(fs) == {fs[i][1] : i \in {j \in 1..Len(fs) : fs[j] # None}}

HeldBy(txn) == IF txn = None THEN {} ELSE Held(txn[1].files)

NoLog == [t \in UnityFileType |-> None]

CacheKey_new(guid, hash, type) == [guid |-> guid, hash |-> hash, type |-> type]

Key(t, guid, hash) == <<t, guid, hash>>

---------------------------------------------------------------------------
(* What the handlers share *)

\* a put that copies the reader to its end instead of reader.take(size)
take_to_end(reader, size) == reader

\* reader.take(size) copied to its end: the bytes io::copy moves
Take(reader, size) == SubSeq(reader, 1, Min(size, Len(reader)))

\* what a call returned
PutRet(h, t, size, reader, fault, res, consumed) ==
    [op |-> "put", h |-> h, res |-> res, n |-> consumed, size |-> size, len |-> Len(reader), fault |-> fault]

EndRet(h, res, txn) == [op |-> "end_transaction", h |-> h, res |-> res, n |-> 0]

\* the number of staged artifacts the handle holds
Staged(h) ==
    IF transaction[h] = None THEN 0
    ELSE Cardinality({i \in 1..LENGTH : transaction[h][1].files[i] # None})

\* start and cancel return nothing but Ok: n is the number of staged artifacts they
\* found and discarded
StartRet(h, guid, hash) == [op |-> "start_transaction", h |-> h, res |-> OkUnit, n |-> Staged(h)]

CancelRet(h) == [op |-> "cancel_transaction", h |-> h, res |-> OkUnit, n |-> Staged(h)]

\* the caller's view of the handle: a transaction was started and not ended
Opens(h) == opened' = [opened EXCEPT ![h] = TRUE] /\ putlog' = [putlog EXCEPT ![h] = NoLog]

Closes(h) == opened' = [opened EXCEPT ![h] = FALSE] /\ putlog' = [putlog EXCEPT ![h] = NoLog]

Logs(h, t, size, reader) ==
    putlog' = [putlog EXCEPT ![h][t] =
                Some([size |-> size, payload |-> Take(reader, size),
                      puts |-> IF @ = None THEN 1 ELSE @[1].puts + 1])]

\* the ghost of a commit: handle h wrote each of these kinds of (guid, hash) last, what
\* its caller had put for the kind, what the commit before it had put (None for the
\* first), and which handles have committed the key
Wrote(w, h, guid, hash, kinds, slots) ==
    LET ks == {Key(t, guid, hash) : t \in kinds}
    IN  [k \in DOMAIN w \cup ks |->
            IF k \in ks
            THEN [h |-> h, slot |-> slots[k[1]],
                  prev |-> IF k \in DOMAIN w THEN w[k].slot ELSE None,
                  hs |-> IF k \in DOMAIN w THEN w[k].hs \cup {h} ELSE {h}]
            ELSE w[k]]

---------------------------------------------------------------------------
(* handlers/nop.rs: NopHandler *)

NopHandler_get(t, guid, hash) == OkVal(None)

NopHandler_start_transaction(h, guid, hash) ==
    /\ ret' = StartRet(h, guid, hash)
    /\ Opens(h)
    /\ UNCHANGED <<transaction, database, files, tempfiles, removing, committing, writer>>

NopHandler_end_transaction(h) ==
    /\ ret' = EndRet(h, OkUnit, None)
    /\ Closes(h)
    /\ UNCHANGED <<transaction, database, files, tempfiles, removing, committing, writer>>

NopHandler_cancel_transaction(h) ==
    /\ ret' = CancelRet(h)
    /\ Closes(h)
    /\ UNCHANGED <<transaction, database, files, tempfiles, removing, committing, writer>>

\* io::copy(&mut reader.take(size), &mut io::sink()).await?; Ok(())
NopHandler_put(h, t, size, reader) ==
    /\ ret' = PutRet(h, t, size, reader, "none", OkUnit, Len(Take(reader, size)))
    /\ UNCHANGED <<transaction, database, files, tempfiles, removing, committing, writer, putlog, opened>>

---------------------------------------------------------------------------
(* handlers/memory.rs: MemoryHandler *)

\* a get that reports every key as stored, empty
get_always_hits(t, guid, hash) == OkVal(Some(<<0, <<>>>>))

MemoryHandler_get(t, guid, hash) ==
    LET k == CacheKey_new(guid, hash, t)
    IN  IF k \in DOMAIN database
        THEN OkVal(Some(<<Len(database[k]), database[k]>>))
        ELSE OkVal(None)

MemoryHandler_start_transaction(h, guid, hash) ==
    /\ transaction' = [transaction EXCEPT ![h] = Some(Transaction_new(guid, hash))]
    /\ ret' = StartRet(h, guid, hash)
    /\ Opens(h)
    /\ UNCHANGED <<database, files, tempfiles, removing, committing, writer>>

\* an insert that keeps the value of a key the map already has
InsertAll_keeps_existing(db, guid, hash, taken) ==
    LET val == [i \in 1..Len(taken) |-> taken[i][2]]
        key == [i \in 1..Len(taken) |-> CacheKey_new(guid, hash, taken[i][1])]
        ks  == {key[i] : i \in 1..Len(taken)}
    IN  [k \in DOMAIN db \cup ks |->
            IF k \in DOMAIN db THEN db[k] ELSE val[CHOOSE i \in 1..Len(taken) : key[i] = k]]

\* an insert that is not atomic: of a key the map already has, only the first byte
\* of the value is replaced
InsertAll_torn(db, guid, hash, taken) ==
    LET val == [i \in 1..Len(taken) |-> taken[i][2]]
        key == [i \in 1..Len(taken) |-> CacheKey_new(guid, hash, taken[i][1])]
        ks  == {key[i] : i \in 1..Len(taken)}
        new(k) == val[CHOOSE i \in 1..Len(taken) : key[i] = k]
    IN  [k \in DOMAIN db \cup ks |->
            IF k \notin ks THEN db[k]
            ELSE IF k \in DOMAIN db /\ db[k] # <<>> /\ new(k) # <<>>
            THEN <<new(k)[1]>> \o Tail(db[k])
            ELSE new(k)]

\* an insert loop whose lock is gone after the first slot: the other slots of the
\* transaction are not in the map when the call returns
InsertAll_first_slot_only(db, guid, hash, taken) ==
    IF taken = <<>> THEN db
    ELSE (CacheKey_new(guid, hash, taken[1][1]) :> taken[1][2]) @@ db

\* guard.insert(CacheKey::new(guid, hash, t), Bytes::from(file)) for every taken slot
InsertAll(db, guid, hash, taken) ==
    LET val == [i \in 1..Len(taken) |-> taken[i][2]]
        key == [i \in 1..Len(taken) |-> CacheKey_new(guid, hash, taken[i][1])]
        ks  == {key[i] : i \in 1..Len(taken)}
    IN  [k \in DOMAIN db \cup ks |->
            IF k \in ks THEN val[CHOOSE i \in 1..Len(taken) : key[i] = k] ELSE db[k]]

\* an end_transaction that commits the slots and leaves the transaction open
end_transaction_stays_open(h) ==
    LET txn == transaction[h]
    IN  /\ IF txn # None
           THEN LET taken == take_all(txn[1].files)
                IN  /\ database' = InsertAll(database, txn[1].guid, txn[1].hash, taken)
                    /\ writer' = Wrote(writer, h, txn[1].guid, txn[1].hash, {taken[i][1] : i \in 1..Len(taken)}, putlog[h])
           ELSE UNCHANGED <<database, writer>>
        /\ ret' = EndRet(h, OkUnit, txn)
        /\ Closes(h)
        /\ UNCHANGED <<transaction, files, tempfiles, removing, committing>>

MemoryHandler_end_transaction(h) ==
    LET txn == transaction[h]
    IN  /\ transaction' = [transaction EXCEPT ![h] = None]
        /\ IF txn # None
           THEN LET taken == take_all(txn[1].files)
                IN  /\ database' = InsertAll(database, txn[1].guid, txn[1].hash, taken)
                    /\ writer' = Wrote(writer, h, txn[1].guid, txn[1].hash, {taken[i][1] : i \in 1..Len(taken)}, putlog[h])
           ELSE UNCHANGED <<database, writer>>
        /\ ret' = EndRet(h, OkUnit, txn)
        /\ Closes(h)
        /\ UNCHANGED <<files, tempfiles, removing, committing>>

\* a cancel on a transaction that the clones of the handler share
cancel_transaction_of_all(h) ==
    /\ transaction' = [g \in Handles |-> None]
    /\ ret' = CancelRet(h)
    /\ Closes(h)
    /\ UNCHANGED <<database, files, tempfiles, removing, committing, writer>>

MemoryHandler_cancel_transaction(h) ==
    /\ transaction' = [transaction EXCEPT ![h] = None]
    /\ ret' = CancelRet(h)
    /\ Closes(h)
    /\ UNCHANGED <<database, files, tempfiles, removing, committing, writer>>

\* a put that looks for the transaction before it looks at the size or the stream
put_checks_transaction_first(h, t, size, reader) ==
    LET buf == Take(reader, size)
        n   == Len(buf)
    IN  /\ IF transaction[h] = None
           THEN /\ ret' = PutRet(h, t, size, reader, "none", ErrNotInTransaction, 0)
                /\ UNCHANGED <<transaction, putlog>>
           ELSE IF max_file_size # 0 /\ size > max_file_size
           THEN /\ ret' = PutRet(h, t, size, reader, "none", ErrFileTooLarge(max_file_size, size), 0)
                /\ UNCHANGED <<transaction, putlog>>
           ELSE IF n # size
           THEN /\ ret' = PutRet(h, t, size, reader, "none", ErrIo("UnexpectedEof"), n)
                /\ UNCHANGED <<transaction, putlog>>
           ELSE /\ transaction' = [transaction EXCEPT ![h] = Some([@[1] EXCEPT !.files = set(@, t, buf)])]
                /\ Logs(h, t, size, reader)
                /\ ret' = PutRet(h, t, size, reader, "none", OkUnit, n)
        /\ UNCHANGED <<database, files, tempfiles, removing, committing, writer, opened>>

\* a put that empties the slot of its kind when the stream ends early
put_clears_slot_on_error(h, t, size, reader) ==
    LET buf == Take(reader, size)
        n   == Len(buf)
    IN  /\ IF max_file_size # 0 /\ size > max_file_size
           THEN /\ ret' = PutRet(h, t, size, reader, "none", ErrFileTooLarge(max_file_size, size), 0)
                /\ UNCHANGED <<transaction, putlog>>
           ELSE IF n # size
           THEN /\ ret' = PutRet(h, t, size, reader, "none", ErrIo("UnexpectedEof"), n)
                /\ transaction' = [transaction EXCEPT ![h] =
                        IF @ = None THEN None ELSE Some([@[1] EXCEPT !.files[to_u8(t) + 1] = None])]
                /\ UNCHANGED putlog
           ELSE IF transaction[h] # None
           THEN /\ transaction' = [transaction EXCEPT ![h] = Some([@[1] EXCEPT !.files = set(@, t, buf)])]
                /\ Logs(h, t, size, reader)
                /\ ret' = PutRet(h, t, size, reader, "none", OkUnit, n)
           ELSE /\ ret' = PutRet(h, t, size, reader, "none", ErrNotInTransaction, n)
                /\ UNCHANGED <<transaction, putlog>>
        /\ UNCHANGED <<database, files, tempfiles, removing, committing, writer, opened>>

MemoryHandler_put(h, t, size, reader) ==
    LET buf == Take(reader, size)
        n   == Len(buf)
    IN  /\ IF max_file_size # 0 /\ size > max_file_size
           THEN /\ ret' = PutRet(h, t, size, reader, "none", ErrFileTooLarge(max_file_size, size), 0)
                /\ UNCHANGED <<transaction, putlog>>
           ELSE IF n # size
           THEN /\ ret' = PutRet(h, t, size, reader, "none", ErrIo("UnexpectedEof"), n)
                /\ UNCHANGED <<transaction, putlog>>
           ELSE IF transaction[h] # None
           THEN /\ transaction' = [transaction EXCEPT ![h] = Some([@[1] EXCEPT !.files = set(@, t, buf)])]
                /\ Logs(h, t, size, reader)
                /\ ret' = PutRet(h, t, size, reader, "none", OkUnit, n)
           ELSE /\ ret' = PutRet(h, t, size, reader, "none", ErrNotInTransaction, n)
                /\ UNCHANGED <<transaction, putlog>>
        /\ UNCHANGED <<database, files, tempfiles, removing, committing, writer, opened>>

---------------------------------------------------------------------------
(* handlers/fs.rs: TempFile and FileSystemHandler *)

base_path == "base"

\* a file name that leaves the kind out
format_filename_without_ext(t, guid, hash) == encode_hex(guid) \o <<45>> \o encode_hex(hash) \o <<46>> \o to_ext("Asset")

\* format!("{}-{}.{}", guid.to_hex_string(), hash.to_hex_string(), t.to_ext())
format_filename(t, guid, hash) == encode_hex(guid) \o <<45>> \o encode_hex(hash) \o <<46>> \o to_ext(t)

\* the names of the keys the clients of the model use, formatted once
filenames == [t \in UnityFileType, id \in Ids |-> format_filename(t, id[1], id[2])]

\* the names of the keys that are compared with each other, formatted once
pathnames == [t \in UnityFileType, id \in PathIds |-> format_filename(t, id[1], id[2])]

calc_filename(t, guid, hash) ==
    IF <<guid, hash>> \in Ids THEN filenames[t, <<guid, hash>>]
    ELSE IF <<guid, hash>> \in PathIds THEN pathnames[t, <<guid, hash>>]
    ELSE format_filename(t, guid, hash)

\* base_path.join(filename.get(0..2)).join(filename)
calc_filepath(t, guid, hash) ==
    LET filename == calc_filename(t, guid, hash)
    IN  <<base_path, SubSeq(filename, 1, 2), filename>>

\* the directories create_dir_all has made on the way to the stored files
IsDir(path) == \E p \in DOMAIN files : Len(path) < Len(p) /\ SubSeq(p, 1, Len(path)) = path

FileSystemHandler_get(t, guid, hash) ==
    LET path == calc_filepath(t, guid, hash)
    IN  IF path \in DOMAIN files
        THEN OkVal(Some(<<Len(files[path]), files[path]>>))
        ELSE IF IsDir(path)
        THEN <<"Err", "HandlerError">>
        ELSE OkVal(None)

\* impl Drop for TempFile: a removal task is spawned for every dropped staging file
\* that still has its path
Drop(tokens) == removing \cup tokens

FileSystemHandler_start_transaction(h, guid, hash) ==
    /\ transaction' = [transaction EXCEPT ![h] = Some(Transaction_new(guid, hash))]
    /\ removing' = Drop(HeldBy(transaction[h]))
    /\ ret' = StartRet(h, guid, hash)
    /\ Opens(h)
    /\ UNCHANGED <<database, files, tempfiles, committing, writer>>

\* a cancel that answers Ok and leaves the transaction as it is
cancel_transaction_keeps(h) ==
    /\ ret' = CancelRet(h)
    /\ Closes(h)
    /\ UNCHANGED <<transaction, database, files, tempfiles, removing, committing, writer>>

FileSystemHandler_cancel_transaction(h) ==
    /\ transaction' = [transaction EXCEPT ![h] = None]
    /\ removing' = Drop(HeldBy(transaction[h]))
    /\ ret' = CancelRet(h)
    /\ Closes(h)
    /\ UNCHANGED <<database, files, tempfiles, committing, writer>>

\* temp_path.join(Uuid::new_v4()): a name no staging file has and no removal task holds
NewToken == CHOOSE k \in 1..(Cardinality(DOMAIN tempfiles \cup removing) + 1) : k \notin DOMAIN tempfiles \cup removing

\* a put without the check of the size against max_file_size
put_unchecked_size(h, t, size, reader, fault) ==
    LET buf == Take(reader, size)
        n   == Len(buf)
        tok == NewToken
        old == IF transaction[h] = None THEN {} ELSE Held(<<transaction[h][1].files[to_u8(t) + 1]>>)
    IN  /\ IF n # size \/ transaction[h] = None
           THEN /\ tempfiles' = (tok :> buf) @@ tempfiles
                /\ removing' = Drop({tok})
                /\ ret' = PutRet(h, t, size, reader, fault, IF n # size THEN ErrIo("UnexpectedEof") ELSE ErrNotInTransaction, n)
                /\ UNCHANGED <<transaction, putlog>>
           ELSE /\ tempfiles' = (tok :> buf) @@ tempfiles
                /\ transaction' = [transaction EXCEPT ![h] = Some([@[1] EXCEPT !.files = set(@, t, tok)])]
                /\ removing' = Drop(old)
                /\ Logs(h, t, size, reader)
                /\ ret' = PutRet(h, t, size, reader, fault, OkUnit, n)
        /\ UNCHANGED <<database, files, committing, writer, opened>>

\* a put that writes the stream straight to the final path of the open transaction's
\* key and stages nothing
put_in_place(h, t, size, reader, fault) ==
    LET buf == Take(reader, size)
    IN  /\ IF transaction[h] # None
           THEN files' = (calc_filepath(t, transaction[h][1].guid, transaction[h][1].hash) :> buf) @@ files
           ELSE UNCHANGED files
        /\ ret' = PutRet(h, t, size, reader, fault, IF Len(buf) = size THEN OkUnit ELSE ErrIo("UnexpectedEof"), Len(buf))
        /\ UNCHANGED <<transaction, putlog, tempfiles, removing, database, committing, writer, opened>>

\* fault: "none", or the I/O call that fails: "open" (new_tmp_file), "write" (io::copy)
FileSystemHandler_put(h, t, size, reader, fault) ==
    LET buf == Take(reader, size)
        n   == Len(buf)
        tok == NewToken
        old == IF transaction[h] = None THEN {} ELSE Held(<<transaction[h][1].files[to_u8(t) + 1]>>)
    IN  /\ IF max_file_size # 0 /\ size > max_file_size
           THEN /\ ret' = PutRet(h, t, size, reader, fault, ErrFileTooLarge(max_file_size, size), 0)
                /\ UNCHANGED <<transaction, putlog, tempfiles, removing>>
           ELSE IF fault = "open"
           THEN /\ ret' = PutRet(h, t, size, reader, fault, ErrIo("Other"), 0)
                /\ UNCHANGED <<transaction, putlog, tempfiles, removing>>
           ELSE IF fault = "write"
           THEN /\ tempfiles' = (tok :> <<>>) @@ tempfiles
                /\ removing' = Drop({tok})
                /\ ret' = PutRet(h, t, size, reader, fault, ErrIo("Other"), n)
                /\ UNCHANGED <<transaction, putlog>>
           ELSE IF n # size
           THEN /\ tempfiles' = (tok :> buf) @@ tempfiles
                /\ removing' = Drop({tok})
                /\ ret' = PutRet(h, t, size, reader, fault, ErrIo("UnexpectedEof"), n)
                /\ UNCHANGED <<transaction, putlog>>
           ELSE IF transaction[h] # None
           THEN /\ tempfiles' = (tok :> buf) @@ tempfiles
                /\ transaction' = [transaction EXCEPT ![h] = Some([@[1] EXCEPT !.files = set(@, t, tok)])]
                /\ removing' = Drop(old)
                /\ Logs(h, t, size, reader)
                /\ ret' = PutRet(h, t, size, reader, fault, OkUnit, n)
           ELSE /\ tempfiles' = (tok :> buf) @@ tempfiles
                /\ removing' = Drop({tok})
                /\ ret' = PutRet(h, t, size, reader, fault, ErrNotInTransaction, n)
                /\ UNCHANGED <<transaction, putlog>>
        /\ UNCHANGED <<database, files, committing, writer, opened>>

\* a function without one point of its domain
Without(f, x) == [y \in DOMAIN f \ {x} |-> f[y]]

\* end_transaction up to its first await inside the loop: the transaction is taken
FileSystemHandler_end_transaction(h) ==
    LET txn   == transaction[h]
        taken == IF txn = None THEN <<>> ELSE take_all(txn[1].files)
    IN  /\ transaction' = [transaction EXCEPT ![h] = None]
        /\ IF taken = <<>>
           THEN /\ ret' = EndRet(h, OkUnit, txn)
                /\ UNCHANGED committing
           ELSE /\ committing' = [committing EXCEPT ![h] = Some([guid |-> txn[1].guid, hash |-> txn[1].hash, rest |-> taken, slots |-> putlog[h]])]
                /\ UNCHANGED ret
        /\ Closes(h)
        /\ UNCHANGED <<database, files, tempfiles, removing, writer>>

\* a move_to whose failure is passed over: the loop goes on with the slots that follow
move_to_goes_on(h, fault) ==
    LET c      == committing[h][1]
        t      == Head(c.rest)[1]
        tok    == Head(c.rest)[2]
        target == calc_filepath(t, c.guid, c.hash)
    IN  /\ IF fault = "none"
           THEN /\ files' = (target :> tempfiles[tok]) @@ files
                /\ tempfiles' = Without(tempfiles, tok)
                /\ writer' = Wrote(writer, h, c.guid, c.hash, {t}, c.slots)
                /\ UNCHANGED removing
           ELSE /\ removing' = Drop({tok})
                /\ UNCHANGED <<files, tempfiles, writer>>
        /\ IF Tail(c.rest) = <<>>
           THEN /\ committing' = [committing EXCEPT ![h] = None]
                /\ ret' = EndRet(h, IF fault = "none" THEN OkUnit ELSE ErrIo("Other"), None)
           ELSE /\ committing' = [committing EXCEPT ![h] = Some([c EXCEPT !.rest = Tail(c.rest)])]
                /\ UNCHANGED ret

\* one turn of end_transaction's loop: file.move_to(target_path).await?
\* fault: "none", or the I/O call that fails: "mkdir" (create_dir_all), "rename"
move_to(h, fault) ==
    LET c      == committing[h][1]
        t      == Head(c.rest)[1]
        tok    == Head(c.rest)[2]
        others == {Tail(c.rest)[i][2] : i \in 1..(Len(c.rest) - 1)}
        target == calc_filepath(t, c.guid, c.hash)
    IN  IF fault = "mkdir"
        THEN /\ removing' = Drop({tok} \cup others)
             /\ committing' = [committing EXCEPT ![h] = None]
             /\ ret' = EndRet(h, ErrIo("Other"), None)
             /\ UNCHANGED <<files, tempfiles, writer>>
        ELSE IF fault = "rename"
        THEN /\ removing' = Drop(others)
             /\ committing' = [committing EXCEPT ![h] = None]
             /\ ret' = EndRet(h, ErrIo("Other"), None)
             /\ UNCHANGED <<files, tempfiles, writer>>
        ELSE /\ files' = (target :> tempfiles[tok]) @@ files
             /\ tempfiles' = Without(tempfiles, tok)
             /\ writer' = Wrote(writer, h, c.guid, c.hash, {t}, c.slots)
             /\ IF Tail(c.rest) = <<>>
                THEN /\ committing' = [committing EXCEPT ![h] = None]
                     /\ ret' = EndRet(h, OkUnit, None)
                ELSE /\ committing' = [committing EXCEPT ![h] = Some([c EXCEPT !.rest = Tail(c.rest)])]
                     /\ UNCHANGED ret
             /\ UNCHANGED removing

\* the task Drop spawned: tokio::fs::remove_file(&path), its error only printed
remove_file(tok) ==
    /\ tok \in removing
    /\ removing' = removing \ {tok}
    /\ tempfiles' = IF tok \in DOMAIN tempfiles THEN Without(tempfiles, tok) ELSE tempfiles

---------------------------------------------------------------------------
(* The handler as its callers see it *)

\* what get(t, guid, hash) returns in the current state
get(t, guid, hash) ==
    CASE backend = "nop" -> NopHandler_get(t, guid, hash)
      [] backend = "memory" -> MemoryHandler_get(t, guid, hash)
      [] backend = "fs" -> FileSystemHandler_get(t, guid, hash)

\* the handle is not inside a call, and the model has calls left
Call(h) ==
    /\ committing[h] = None
    /\ nops < budget
    /\ nops' = nops + 1
    /\ UNCHANGED <<backend, max_file_size, budget>>
    /\ UNCHANGED connVars

Get(h, t, guid, hash) ==
    /\ Call(h)
    /\ ret' = [op |-> "get", h |-> h, res |-> get(t, guid, hash), n |-> 0, key |-> Key(t, guid, hash)]
    /\ UNCHANGED <<transaction, database, files, tempfiles, removing, committing, putlog, writer, opened>>

NopStart(h, guid, hash) == backend = "nop" /\ Call(h) /\ NopHandler_start_transaction(h, guid, hash)

NopEnd(h) == backend = "nop" /\ Call(h) /\ NopHandler_end_transaction(h)

NopCancel(h) == backend = "nop" /\ Call(h) /\ NopHandler_cancel_transaction(h)

NopPut(h, t, size, reader) == backend = "nop" /\ Call(h) /\ NopHandler_put(h, t, size, reader)

MemStart(h, guid, hash) == backend = "memory" /\ Call(h) /\ MemoryHandler_start_transaction(h, guid, hash)

MemEnd(h) == backend = "memory" /\ Call(h) /\ MemoryHandler_end_transaction(h)

MemCancel(h) == backend = "memory" /\ Call(h) /\ MemoryHandler_cancel_transaction(h)

MemPut(h, t, size, reader) == backend = "memory" /\ Call(h) /\ MemoryHandler_put(h, t, size, reader)

FsStart(h, guid, hash) == backend = "fs" /\ Call(h) /\ FileSystemHandler_start_transaction(h, guid, hash)

FsEnd(h) == backend = "fs" /\ Call(h) /\ FileSystemHandler_end_transaction(h)

FsCancel(h) == backend = "fs" /\ Call(h) /\ FileSystemHandler_cancel_transaction(h)

FsPut(h, t, size, reader, fault) == backend = "fs" /\ Call(h) /\ FileSystemHandler_put(h, t, size, reader, fault)

FsMoveTo(h, fault) ==
    /\ backend = "fs"
    /\ committing[h] # None
    /\ move_to(h, fault)
    /\ UNCHANGED <<backend, max_file_size, budget, transaction, database, putlog, opened, nops>>
    /\ UNCHANGED connVars

FsRemoveFile(tok) ==
    /\ remove_file(tok)
    /\ UNCHANGED <<backend, max_file_size, budget, transaction, database, files, committing, ret, putlog, writer, opened, nops>>
    /\ UNCHANGED connVars

\* the connection's task ends and its handler is dropped with it (main.rs), and the
\* next connection gets a fresh clone, whose transaction is Default::default()
DropHandler(h) ==
    /\ Call(h)
    /\ transaction' = [transaction EXCEPT ![h] = None]
    /\ removing' = IF backend = "fs" THEN Drop(HeldBy(transaction[h])) ELSE removing
    /\ ret' = [op |-> "drop", h |-> h, res |-> OkUnit, n |-> Staged(h)]
    /\ Closes(h)
    /\ UNCHANGED <<database, files, tempfiles, committing, writer>>

PutFaults == {"none", "open", "write"}

\* every declared size against every stream, and each I/O fault on a well-formed put
FsPutInputs ==
    {<<size, reader, "none">> : size \in Sizes, reader \in Streams}
        \cup {<<Len(reader), reader, fault>> : reader \in Streams, fault \in PutFaults}

MoveFaults == {"none", "mkdir", "rename"}

ConnIdle ==
    /\ rd = <<>>
    /\ closed = FALSE
    /\ pc = "idle"
    /\ vbuf = <<>>
    /\ out = <<>>
    /\ wbuf = <<>>
    /\ result = None
    /\ hit = None
    /\ ncmd = 0
    /\ nsent = 0

BackendInit ==
    /\ backend \in Backends
    /\ max_file_size \in {0, MaxFile}
    /\ transaction = [h \in Handles |-> None]
    /\ database = <<>>
    /\ files = <<>>
    /\ tempfiles = <<>>
    /\ removing = {}
    /\ committing = [h \in Handles |-> None]
    /\ ret = [op |-> "none", h |-> 0, res |-> OkUnit, n |-> 0]
    /\ putlog = [h \in Handles |-> NoLog]
    /\ writer = <<>>
    /\ opened = [h \in Handles |-> FALSE]
    /\ nops = 0

\* the calls of the handles in H, on the keys and inputs given
Calls(H) ==
    \/ \E h \in H, t \in UnityFileType, id \in Ids : Get(h, t, id[1], id[2])
    \/ \E h \in H, id \in Ids : NopStart(h, id[1], id[2])
    \/ \E h \in H : NopEnd(h)
    \/ \E h \in H : NopCancel(h)
    \/ \E h \in H, t \in UnityFileType, size \in Sizes, reader \in Streams : NopPut(h, t, size, reader)
    \/ \E h \in H, id \in Ids : MemStart(h, id[1], id[2])
    \/ \E h \in H : MemEnd(h)
    \/ \E h \in H : MemCancel(h)
    \/ \E h \in H, t \in UnityFileType, size \in Sizes, reader \in Streams : MemPut(h, t, size, reader)
    \/ \E h \in H, id \in Ids : FsStart(h, id[1], id[2])
    \/ \E h \in H : FsEnd(h)
    \/ \E h \in H : FsCancel(h)
    \/ \E h \in H, t \in UnityFileType, in \in FsPutInputs : FsPut(h, t, in[1], in[2], in[3])
    \/ \E h \in H, fault \in MoveFaults : FsMoveTo(h, fault)
    \/ \E tok \in removing : FsRemoveFile(tok)
    \/ \E h \in H : DropHandler(h)

---------------------------------------------------------------------------
(* serve.rs: the protocol engine handle(), on the connection of handle Conn *)

Conn == 1

Byte_g == 103

Byte_t == 116

Byte_s == 115

Byte_e == 101

Byte_p == 112

Byte_q == 113

Plus == 43

Minus == 45

VERSION == 254

VERSION_BUF == 8

U64_STRING_LENGTH == 16

\* the value of one hexadecimal digit, -1 for any other byte
HexVal(c) ==
    IF 48 <= c /\ c <= 57 THEN c - 48
    ELSE IF 97 <= c /\ c <= 102 THEN c - 87
    ELSE IF 65 <= c /\ c <= 70 THEN c - 55
    ELSE 0 - 1

RECURSIVE HexNum(_, _)
HexNum(digits, acc) ==
    IF digits = <<>> THEN acc ELSE HexNum(Tail(digits), acc * 16 + HexVal(Head(digits)))

\* u32::from_str_radix(s, 16) and u64::from_str_radix(s, 16): an optional '+', then
\* at least one digit and nothing but digits
from_str_radix(s) ==
    LET digits == IF s # <<>> /\ s[1] = Plus THEN Tail(s) ELSE s
    IN  IF digits = <<>> \/ \E i \in 1..Len(digits) : HexVal(digits[i]) < 0
        THEN None
        ELSE Some(HexNum(digits, 0))

\* std::str::from_utf8 on the bytes the model sends: ASCII is valid
from_utf8_ok(s) == \A i \in 1..Len(s) : s[i] < 128

\* format!("{:016x}", v)
RECURSIVE HexDigits(_, _)
HexDigits(v, width) ==
    IF width = 0 THEN <<>> ELSE HexDigits(v \div 16, width - 1) \o <<HexDigit(v % 16)>>

size_string(v) == HexDigits(v, U64_STRING_LENGTH)

\* a version that lets every requested version pass
version_accepts_all(v) == OkVal(v)

\* Handler::version: only 254 allowed
version(v) == IF v = VERSION THEN OkVal(v) ELSE <<"Err", "WrongVersion", v>>

\* read_version from the parse on, and handle() up to its loop
\* buf: the bytes read_version's one or two reads returned
Handshake(buf) ==
    LET parsed == IF ~from_utf8_ok(buf) THEN <<"Err", "Utf8Error">>
                  ELSE IF from_str_radix(buf) = None THEN <<"Err", "ParseIntError">>
                  ELSE version(from_str_radix(buf)[1])
    IN  IF IsOk(parsed)
        THEN /\ out' = out \o wbuf \o u32_to_be_hex_string(parsed[2])
             /\ wbuf' = <<>>
             /\ pc' = "loop"
             /\ UNCHANGED result
        ELSE /\ result' = Some(parsed)
             /\ pc' = "exit"
             /\ UNCHANGED <<out, wbuf>>

BackendIdle == UNCHANGED backendVars

\* the first reader.read(&mut buf) of read_version: n bytes of the 8 asked for
ReadVersion1(n) ==
    /\ pc = "version"
    /\ \/ n = 0 /\ rd = <<>> /\ closed
       \/ 1 <= n /\ n <= Min(VERSION_BUF, Len(rd))
    /\ rd' = SubSeq(rd, n + 1, Len(rd))
    /\ IF n = 0
       THEN result' = Some(<<"Err", "ReadVersionError">>) /\ pc' = "exit" /\ UNCHANGED <<vbuf, out, wbuf>>
       ELSE IF n = 1
       THEN vbuf' = SubSeq(rd, 1, 1) /\ pc' = "version2" /\ UNCHANGED <<out, wbuf, result>>
       ELSE Handshake(SubSeq(rd, 1, n)) /\ UNCHANGED vbuf
    /\ UNCHANGED <<closed, ncmd, nsent, hit>>
    /\ BackendIdle

\* the second read, made when the first returned one byte: n2 of the 7 left
ReadVersion2(n2) ==
    /\ pc = "version2"
    /\ \/ n2 = 0 /\ rd = <<>> /\ closed
       \/ 1 <= n2 /\ n2 <= Min(VERSION_BUF - 1, Len(rd))
    /\ rd' = SubSeq(rd, n2 + 1, Len(rd))
    /\ IF n2 = 0
       THEN result' = Some(<<"Err", "ReadVersionError">>) /\ pc' = "exit" /\ UNCHANGED <<out, wbuf>>
       ELSE Handshake(vbuf \o SubSeq(rd, 1, n2))
    /\ UNCHANGED <<vbuf, closed, ncmd, nsent, hit>>
    /\ BackendIdle

\* the loop returns an error, whatever it had buffered for the client is lost
Fail(e) == result' = Some(e) /\ pc' = "exit" /\ rd' = <<>> /\ UNCHANGED <<out, wbuf>>

FailAt(e, k) == result' = Some(e) /\ pc' = "exit" /\ rd' = SubSeq(rd, k + 1, Len(rd)) /\ UNCHANGED <<out, wbuf>>

\* reader.read_u8() of the loop meets the end of the stream: break, Ok(())
ServeEof ==
    /\ pc = "loop" /\ rd = <<>> /\ closed
    /\ result' = Some(OkUnit) /\ pc' = "exit"
    /\ UNCHANGED <<rd, closed, vbuf, out, wbuf, ncmd, nsent, hit>>
    /\ BackendIdle

ServeQuit ==
    /\ pc = "loop" /\ rd # <<>> /\ rd[1] = Byte_q
    /\ result' = Some(OkUnit) /\ pc' = "exit"
    /\ rd' = Tail(rd) /\ ncmd' = ncmd + 1
    /\ UNCHANGED <<closed, vbuf, out, wbuf, nsent, hit>>
    /\ BackendIdle

ServeUnknown ==
    /\ pc = "loop" /\ rd # <<>> /\ rd[1] \notin {Byte_g, Byte_t, Byte_p, Byte_q}
    /\ FailAt(<<"Err", "UnknownCommand", rd[1]>>, 1)
    /\ ncmd' = ncmd + 1
    /\ UNCHANGED <<closed, vbuf, nsent, hit>>
    /\ BackendIdle

\* the 'g' branch up to the header of the response: on a miss the whole response is
\* written and flushed; on a hit the header goes to the writer's buffer and the
\* artifact's reader r is still to be copied
ServeGet ==
    /\ pc = "loop" /\ rd # <<>> /\ rd[1] = Byte_g
    /\ ncmd' = ncmd + 1
    /\ UNCHANGED <<closed, vbuf, nsent>>
    /\ IF Len(rd) < 2
       THEN closed /\ Fail(ErrIo("UnexpectedEof")) /\ BackendIdle /\ UNCHANGED hit
       ELSE IF try_from_ext_char(rd[2]) = None
       THEN FailAt(<<"Err", "UnknownFileTypeByte", rd[2]>>, 2) /\ BackendIdle /\ UNCHANGED hit
       ELSE IF Len(rd) < 2 + GUID_LENGTH + HASH_LENGTH
       THEN closed /\ Fail(ErrIo("UnexpectedEof")) /\ BackendIdle /\ UNCHANGED hit
       ELSE LET t    == try_from_ext_char(rd[2])[1]
                guid == SubSeq(rd, 3, 2 + GUID_LENGTH)
                hash == SubSeq(rd, 3 + GUID_LENGTH, 2 + GUID_LENGTH + HASH_LENGTH)
                got  == get(t, guid, hash)
            IN  /\ ret' = [op |-> "get", h |-> Conn, res |-> got, n |-> 0, key |-> Key(t, guid, hash)]
                /\ nops' = nops + 1
                /\ UNCHANGED <<backend, max_file_size, budget, transaction, database, files, tempfiles, removing, committing, putlog, writer, opened>>
                /\ IF IsErr(got)
                   THEN FailAt(got, 2 + GUID_LENGTH + HASH_LENGTH) /\ UNCHANGED hit
                   ELSE /\ rd' = SubSeq(rd, 3 + GUID_LENGTH + HASH_LENGTH, Len(rd))
                        /\ IF got[2] = None
                           THEN /\ out' = out \o wbuf \o <<Minus, to_ext_char(t)>> \o guid \o hash
                                /\ wbuf' = <<>>
                                /\ UNCHANGED <<pc, hit>>
                           ELSE /\ wbuf' = wbuf \o <<Plus, to_ext_char(t)>> \o size_string(got[2][1][1]) \o guid \o hash
                                /\ hit' = Some([t |-> t, guid |-> guid, hash |-> hash, size |-> got[2][1][1], r |-> got[2][1][2]])
                                /\ pc' = "copy"
                                /\ UNCHANGED out
                        /\ UNCHANGED result

\* a copy that opens the artifact of the key again and sends what it holds by now
ServeCopy_reopens ==
    /\ pc = "copy"
    /\ LET got == get(hit[1].t, hit[1].guid, hit[1].hash)
       IN  out' = out \o wbuf \o (IF IsOk(got) /\ got[2] # None THEN got[2][1][2] ELSE <<>>)
    /\ wbuf' = <<>>
    /\ hit' = None
    /\ pc' = "loop"
    /\ UNCHANGED <<rd, closed, vbuf, result, ncmd, nsent>>
    /\ BackendIdle

\* the rest of the 'g' branch on a hit: io::copy(&mut r, writer) sends what the reader
\* returned by get delivers, and writer.flush()
ServeCopy ==
    /\ pc = "copy"
    /\ out' = out \o wbuf \o hit[1].r
    /\ wbuf' = <<>>
    /\ hit' = None
    /\ pc' = "loop"
    /\ UNCHANGED <<rd, closed, vbuf, result, ncmd, nsent>>
    /\ BackendIdle

\* the handler's calls, whichever backend serves
start_transaction(h, guid, hash) ==
    CASE backend = "nop" -> NopHandler_start_transaction(h, guid, hash)
      [] backend = "memory" -> MemoryHandler_start_transaction(h, guid, hash)
      [] backend = "fs" -> FileSystemHandler_start_transaction(h, guid, hash)

end_transaction(h) ==
    CASE backend = "nop" -> NopHandler_end_transaction(h)
      [] backend = "memory" -> MemoryHandler_end_transaction(h)
      [] backend = "fs" -> FileSystemHandler_end_transaction(h)

put(h, t, size, reader, fault) ==
    CASE backend = "nop" -> NopHandler_put(h, t, size, reader)
      [] backend = "memory" -> MemoryHandler_put(h, t, size, reader)
      [] backend = "fs" -> FileSystemHandler_put(h, t, size, reader, fault)

Calling == nops' = nops + 1 /\ UNCHANGED <<backend, max_file_size, budget>>

\* the 't' branch
ServeTransaction ==
    /\ pc = "loop" /\ rd # <<>> /\ rd[1] = Byte_t
    /\ ncmd' = ncmd + 1
    /\ UNCHANGED <<closed, vbuf, nsent, hit>>
    /\ IF Len(rd) < 2
       THEN closed /\ Fail(ErrIo("UnexpectedEof")) /\ BackendIdle
       ELSE IF rd[2] = Byte_s
       THEN IF Len(rd) < 2 + GUID_LENGTH + HASH_LENGTH
            THEN closed /\ Fail(ErrIo("UnexpectedEof")) /\ BackendIdle
            ELSE /\ Calling
                 /\ start_transaction(Conn, SubSeq(rd, 3, 2 + GUID_LENGTH), SubSeq(rd, 3 + GUID_LENGTH, 2 + GUID_LENGTH + HASH_LENGTH))
                 /\ rd' = SubSeq(rd, 3 + GUID_LENGTH + HASH_LENGTH, Len(rd))
                 /\ UNCHANGED <<pc, out, wbuf, result>>
       ELSE IF rd[2] = Byte_e
       THEN /\ Calling
            /\ end_transaction(Conn)
            /\ rd' = SubSeq(rd, 3, Len(rd))
            /\ pc' = IF committing'[Conn] # None THEN "commit" ELSE "loop"
            /\ UNCHANGED <<out, wbuf, result>>
       ELSE FailAt(<<"Err", "UnknownTransactionCommand", rd[2]>>, 2) /\ BackendIdle

\* handler.end_transaction().await? of the filesystem backend, one move_to at a time
ServeMoveTo(fault) ==
    /\ pc = "commit"
    /\ move_to(Conn, fault)
    /\ IF committing'[Conn] # None
       THEN UNCHANGED <<pc, result>>
       ELSE IF IsOk(ret'.res)
       THEN pc' = "loop" /\ UNCHANGED result
       ELSE pc' = "exit" /\ result' = Some(ret'.res)
    /\ UNCHANGED <<backend, max_file_size, budget, transaction, database, putlog, opened, nops>>
    /\ UNCHANGED <<rd, closed, vbuf, out, wbuf, ncmd, nsent, hit>>

\* read_size_string
read_size_string(s) ==
    IF ~from_utf8_ok(s) THEN ErrIo("InvalidData")
    ELSE IF Len(s) # U64_STRING_LENGTH THEN ErrIo("UnexpectedEof")
    ELSE IF from_str_radix(s) = None THEN <<"Err", "ParseIntError">>
    ELSE OkVal(from_str_radix(s)[1])

\* the 'p' branch
ServePut(fault) ==
    /\ pc = "loop" /\ rd # <<>> /\ rd[1] = Byte_p
    /\ ncmd' = ncmd + 1
    /\ UNCHANGED <<closed, vbuf, nsent, hit>>
    /\ IF Len(rd) < 2
       THEN closed /\ fault = "none" /\ Fail(ErrIo("UnexpectedEof")) /\ BackendIdle
       ELSE IF rd[2] \notin {97, 105, 114}
       THEN fault = "none" /\ FailAt(<<"Err", "UnknownPushCommand", rd[2]>>, 2) /\ BackendIdle
       ELSE IF Len(rd) < 2 + U64_STRING_LENGTH /\ ~closed
       THEN FALSE
       ELSE LET t      == try_from_ext_char(rd[2])[1]
                digits == SubSeq(rd, 3, Min(Len(rd), 2 + U64_STRING_LENGTH))
                size   == read_size_string(digits)
                reader == SubSeq(rd, 3 + U64_STRING_LENGTH, Len(rd))
            IN  IF IsErr(size)
                THEN fault = "none" /\ FailAt(size, 2 + Len(digits)) /\ BackendIdle
                ELSE /\ fault \in (IF backend = "fs" THEN PutFaults ELSE {"none"})
                     /\ closed \/ Len(reader) >= size[2] \/ (backend # "nop" /\ max_file_size # 0 /\ size[2] > max_file_size)
                     /\ Calling
                     /\ put(Conn, t, size[2], reader, fault)
                     /\ rd' = SubSeq(reader, ret'.n + 1, Len(reader))
                     /\ IF IsOk(ret'.res)
                        THEN UNCHANGED <<pc, result>>
                        ELSE pc' = "exit" /\ result' = Some(ret'.res)
                     /\ UNCHANGED <<out, wbuf>>

\* handle() has returned: its handler is dropped, and what the writer buffered is lost
ServeExit ==
    /\ pc = "exit"
    /\ pc' = "done"
    /\ wbuf' = <<>>
    /\ transaction' = [transaction EXCEPT ![Conn] = None]
    /\ removing' = IF backend = "fs" THEN Drop(HeldBy(transaction[Conn])) ELSE removing
    /\ Closes(Conn)
    /\ UNCHANGED <<backend, max_file_size, budget, database, files, tempfiles, committing, ret, writer, nops>>
    /\ UNCHANGED <<rd, closed, vbuf, out, result, ncmd, nsent, hit>>

---------------------------------------------------------------------------
(* The client of the connection *)

MaxSends == 5

\* "fe", "000000fe", "FE", "ff", "1", "fg"
Versions == {<<102, 101>>, <<48, 48, 48, 48, 48, 48, 102, 101>>, <<70, 69>>, <<102, 102>>, <<49>>, <<102, 103>>}

ServeId == CHOOSE id \in Ids : id[1][GUID_LENGTH] = 1

PutCmd(t, size, payload) == <<Byte_p, to_ext_char(t)>> \o size_string(size) \o payload

\* well-formed commands, and commands with a byte the engine does not know ('x')
Commands ==
    {<<Byte_g, to_ext_char(t)>> \o ServeId[1] \o ServeId[2] : t \in {"Asset", "Info"}}
        \cup {<<Byte_t, Byte_s>> \o ServeId[1] \o ServeId[2], <<Byte_t, Byte_e>>, <<Byte_q>>}
        \cup {PutCmd("Asset", 1, <<1>>), PutCmd("Info", 2, <<1, 2>>), PutCmd("Info", 0, <<>>)}
        \cup {<<Byte_g, 120>>, <<Byte_p, 120>>, <<Byte_t, 120>>, <<120>>}

Messages == IF nsent = 0 THEN Versions ELSE Commands

\* the client sends bytes only once the server has read what it sent before, except
\* that its first command may follow the version at once
MaySend == ~closed /\ nsent < MaxSends /\ (rd = <<>> \/ (pc = "version" /\ nsent = 1))

ClientSend(msg) ==
    /\ MaySend
    /\ msg \in Messages
    /\ rd' = rd \o msg
    /\ nsent' = nsent + 1
    /\ UNCHANGED <<closed, pc, vbuf, out, wbuf, result, ncmd, hit>>
    /\ BackendIdle

\* where a message may be cut short: after its command byte, after its second byte,
\* inside and at the end of its first field, and one byte before the end of a get
Cuts == {1, 2, 3, 2 + GUID_LENGTH, 1 + GUID_LENGTH + HASH_LENGTH}

\* the client sends the first k bytes of a message and shuts down
ClientSendPart(msg, k) ==
    /\ MaySend
    /\ msg \in Messages
    /\ k \in Cuts /\ k < Len(msg)
    /\ rd' = rd \o SubSeq(msg, 1, k)
    /\ nsent' = nsent + 1
    /\ closed' = TRUE
    /\ UNCHANGED <<pc, vbuf, out, wbuf, result, ncmd, hit>>
    /\ BackendIdle

ClientClose ==
    /\ ~closed
    /\ rd = <<>> \/ pc = "version"
    /\ closed' = TRUE
    /\ UNCHANGED <<rd, pc, vbuf, out, wbuf, result, ncmd, nsent, hit>>
    /\ BackendIdle

InitServe ==
    /\ BackendInit
    /\ budget = 0
    /\ rd = <<>>
    /\ closed = FALSE
    /\ pc = "version"
    /\ vbuf = <<>>
    /\ out = <<>>
    /\ wbuf = <<>>
    /\ result = None
    /\ hit = None
    /\ ncmd = 0
    /\ nsent = 0

NextServe ==
    \/ \E msg \in Versions \cup Commands : ClientSend(msg)
    \/ \E msg \in Versions \cup Commands, k \in Cuts : ClientSendPart(msg, k)
    \/ ClientClose
    \/ \E n \in 0..VERSION_BUF : ReadVersion1(n)
    \/ \E n2 \in 0..VERSION_BUF : ReadVersion2(n2)
    \/ ServeEof
    \/ ServeQuit
    \/ ServeUnknown
    \/ ServeGet
    \/ ServeCopy
    \/ ServeTransaction
    \/ \E fault \in MoveFaults : ServeMoveTo(fault)
    \/ \E fault \in PutFaults : ServePut(fault)
    \/ ServeExit
    \/ \E tok \in removing : FsRemoveFile(tok)

SpecServe == InitServe /\ [][NextServe]_vars

\* every handle in use, each behaviour MaxOps calls long
Init == BackendInit /\ ConnIdle /\ budget = MaxOps

Next == Calls(Handles)

Spec == Init /\ [][Next]_vars

\* one handle in use, each behaviour one call longer
InitSeq == BackendInit /\ ConnIdle /\ budget = MaxOps + 1

NextSeq == Calls({1})

SpecSeq == InitSeq /\ [][NextSeq]_vars

\* Connections racing on one key: every handle runs transactions (start_transaction,
\* puts that declare RaceLen bytes, end_transaction) on the one (guid, hash) and gets
\* it; a put's stream may end one byte early, and no I/O call fails
RaceKinds == {"Asset", "Info"}

\* every racing put has a payload of RaceLen equal bytes, so that a stored payload
\* which mixes two puts is none of them
RacePayloads == {[i \in 1..RaceLen |-> b] : b \in PayloadBytes}

\* the streams of the racing puts: a whole payload, or one that ends a byte early
RaceStreams == RacePayloads \cup {[i \in 1..(RaceLen - 1) |-> 1]}

InitRace ==
    /\ BackendInit
    /\ backend \in {"memory", "fs"}
    /\ max_file_size = 0
    /\ ConnIdle
    /\ budget = MaxRaceOps

NextRace ==
    \/ \E h \in Handles, t \in RaceKinds : Get(h, t, ServeId[1], ServeId[2])
    \/ \E h \in Handles : ~opened[h] /\ MemStart(h, ServeId[1], ServeId[2])
    \/ \E h \in Handles, t \in RaceKinds, reader \in RaceStreams : opened[h] /\ MemPut(h, t, RaceLen, reader)
    \/ \E h \in Handles : opened[h] /\ MemEnd(h)
    \/ \E h \in Handles : ~opened[h] /\ FsStart(h, ServeId[1], ServeId[2])
    \/ \E h \in Handles, t \in RaceKinds, reader \in RaceStreams : opened[h] /\ FsPut(h, t, RaceLen, reader, "none")
    \/ \E h \in Handles : opened[h] /\ FsEnd(h)
    \/ \E h \in Handles : FsMoveTo(h, "none")
    \/ \E tok \in removing : FsRemoveFile(tok)

SpecRace == InitRace /\ [][NextRace]_vars

\* A connection getting a key while another connection commits to it: the client asks
\* for the kinds of one key, and a second handle runs transactions that put payloads
\* of different lengths under the Asset of that key
GetMessages == {<<102, 101>>, <<Byte_g, to_ext_char("Asset")>> \o ServeId[1] \o ServeId[2]}

Committers == Handles \ {Conn}

\* handle() has been called on an accepted connection and has read nothing yet
ConnAccepted ==
    /\ rd = <<>>
    /\ closed = FALSE
    /\ pc = "version"
    /\ vbuf = <<>>
    /\ out = <<>>
    /\ wbuf = <<>>
    /\ result = None
    /\ hit = None
    /\ ncmd = 0
    /\ nsent = 0

InitGet ==
    /\ BackendInit
    /\ backend \in {"memory", "fs"}
    /\ max_file_size = 0
    /\ budget = MaxRaceOps
    /\ ConnAccepted

Commit ==
    \/ \E h \in Committers : ~opened[h] /\ MemStart(h, ServeId[1], ServeId[2])
    \/ \E h \in Committers, reader \in Streams : opened[h] /\ MemPut(h, "Asset", Len(reader), reader)
    \/ \E h \in Committers : opened[h] /\ MemEnd(h)
    \/ \E h \in Committers : ~opened[h] /\ FsStart(h, ServeId[1], ServeId[2])
    \/ \E h \in Committers, reader \in Streams : opened[h] /\ FsPut(h, "Asset", Len(reader), reader, "none")
    \/ \E h \in Committers : opened[h] /\ FsEnd(h)
    \/ \E h \in Committers : FsMoveTo(h, "none")
    \/ \E tok \in removing : FsRemoveFile(tok)

NextGet ==
    \/ \E msg \in GetMessages : nsent <= MaxGets /\ ClientSend(msg)
    \/ \E n \in 1..VERSION_BUF : ReadVersion1(n)
    \/ \E n2 \in 1..VERSION_BUF : ReadVersion2(n2)
    \/ ServeGet
    \/ ServeCopy
    \/ Commit

SpecGet == InitGet /\ [][NextGet]_vars

\* A client that pipelines: once it has the version echo it sends its commands
\* without waiting for the answers, one of them a put whose payload is a byte short,
\* and it may shut down at any time
PipeCommands ==
    {<<Byte_g, to_ext_char("Asset")>> \o ServeId[1] \o ServeId[2],
     <<Byte_t, Byte_s>> \o ServeId[1] \o ServeId[2], <<Byte_t, Byte_e>>, <<Byte_q>>,
     PutCmd("Asset", 1, <<1>>), PutCmd("Info", 2, <<1, 2>>), PutCmd("Info", 2, <<1>>)}

ClientPipe(msg) ==
    /\ ~closed /\ nsent < MaxSends
    /\ IF nsent = 0 THEN msg = <<102, 101>> ELSE msg \in PipeCommands /\ pc \notin {"version", "version2"}
    /\ rd' = rd \o msg
    /\ nsent' = nsent + 1
    /\ UNCHANGED <<closed, pc, vbuf, out, wbuf, result, ncmd, hit>>
    /\ BackendIdle

ClientShutdown ==
    /\ ~closed /\ nsent > 0
    /\ closed' = TRUE
    /\ UNCHANGED <<rd, pc, vbuf, out, wbuf, result, ncmd, nsent, hit>>
    /\ BackendIdle

InitPipe ==
    /\ BackendInit
    /\ max_file_size = 0
    /\ budget = 0
    /\ ConnAccepted

NextPipe ==
    \/ \E msg \in PipeCommands \cup {<<102, 101>>} : ClientPipe(msg)
    \/ ClientShutdown
    \/ \E n \in 1..VERSION_BUF : ReadVersion1(n)
    \/ \E n2 \in 1..VERSION_BUF : ReadVersion2(n2)
    \/ ServeEof
    \/ ServeQuit
    \/ ServeGet
    \/ ServeCopy
    \/ ServeTransaction
    \/ ServeMoveTo("none")
    \/ ServePut("none")
    \/ ServeExit
    \/ \E tok \in removing : FsRemoveFile(tok)

SpecPipe == InitPipe /\ [][NextPipe]_vars

\* The filesystem backend on keys whose names are close to each other: one handle
\* commits one-byte artifacts under every kind of the identifiers of PathIds
PathStreams == {<<b>> : b \in PayloadBytes}

InitPath ==
    /\ BackendInit
    /\ backend = "fs"
    /\ max_file_size = 0
    /\ ConnIdle
    /\ budget = MaxPathOps

NextPath ==
    \/ \E h \in Committers, id \in PathIds : ~opened[h] /\ FsStart(h, id[1], id[2])
    \/ \E h \in Committers, t \in UnityFileType, reader \in PathStreams : opened[h] /\ FsPut(h, t, 1, reader, "none")
    \/ \E h \in Committers : opened[h] /\ FsEnd(h)
    \/ \E h \in Committers : FsMoveTo(h, "none")
    \/ \E tok \in removing : FsRemoveFile(tok)

SpecPath == InitPath /\ [][NextPath]_vars

\* Two handles of the memory backend that commit the same kinds of one (guid, hash),
\* each handle with payloads of its own, while both get them
OwnPayload(h) == [i \in 1..RaceLen |-> h]

InitCommit ==
    /\ BackendInit
    /\ backend = "memory"
    /\ max_file_size = 0
    /\ ConnIdle
    /\ budget = MaxCommitOps

NextCommit ==
    \/ \E h \in Handles, t \in RaceKinds : Get(h, t, ServeId[1], ServeId[2])
    \/ \E h \in Handles : ~opened[h] /\ MemStart(h, ServeId[1], ServeId[2])
    \/ \E h \in Handles, t \in RaceKinds : opened[h] /\ MemPut(h, t, RaceLen, OwnPayload(h))
    \/ \E h \in Handles : opened[h] /\ MemEnd(h)

SpecCommit == InitCommit /\ [][NextCommit]_vars

\* One handle whose puts may fail: transactions on one (guid, hash) with puts that are
\* too large, that meet the end of their stream early or whose staging I/O fails,
\* between puts that succeed
InitFail ==
    /\ BackendInit
    /\ backend \in {"memory", "fs"}
    /\ ConnIdle
    /\ budget = MaxFailOps

NextFail ==
    \/ \E h \in Committers, t \in RaceKinds : Get(h, t, ServeId[1], ServeId[2])
    \/ \E h \in Committers : ~opened[h] /\ MemStart(h, ServeId[1], ServeId[2])
    \/ \E h \in Committers, t \in RaceKinds, size \in Sizes, reader \in Streams : MemPut(h, t, size, reader)
    \/ \E h \in Committers : opened[h] /\ MemEnd(h)
    \/ \E h \in Committers : ~opened[h] /\ FsStart(h, ServeId[1], ServeId[2])
    \/ \E h \in Committers, t \in RaceKinds, i \in FsPutInputs : FsPut(h, t, i[1], i[2], i[3])
    \/ \E h \in Committers : opened[h] /\ FsEnd(h)
    \/ \E h \in Committers : FsMoveTo(h, "none")
    \/ \E tok \in removing : FsRemoveFile(tok)

SpecFail == InitFail /\ [][NextFail]_vars

---------------------------------------------------------------------------
(* Properties of the storage backends *)

IsFileTooLarge(res) == IsErr(res) /\ res[2] = "FileTooLarge"

TooLarge(size) == max_file_size # 0 /\ size > max_file_size

\* the step is a call that returned: ret' tells which, on which handle, given what
Returned(op) == nops' = nops + 1 /\ committing' = committing /\ ret'.op = op

\* the step is a put of the handle on a stream of ret'.len bytes
PutReturned(h) == Returned("put") /\ ret'.h = h

\* the step is the handle's end_transaction, or the start of it when it has to move files
EndCalled(h) ==
    /\ nops' = nops + 1
    /\ \/ committing = committing' /\ ret'.op = "end_transaction" /\ ret'.h = h
       \/ committing[h] = None /\ committing'[h] # None

\* the step is one move_to of the handle's commit
Moved(h) == committing[h] # None /\ committing'[h] # committing[h]

\* no get answers differently after the step than before it
SameAnswers == \A t \in UnityFileType, id \in Ids : get(t, id[1], id[2])' = get(t, id[1], id[2])

\* the step commits nothing and stages nothing
Unstored == UNCHANGED <<database, files, transaction, writer>> /\ SameAnswers

\* no handle but h has committed the key
OnlyWriter(h, k) == ~(k \in DOMAIN writer' /\ writer'[k].h # h)

\* after the step, get answers each slot of slots with its declared size and payload
Committed(h, guid, hash, slots) ==
    \A t \in UnityFileType, id \in Ids :
        id = <<guid, hash>> /\ slots[t] # None /\ OnlyWriter(h, Key(t, id[1], id[2]))
            => get(t, id[1], id[2])' = OkVal(Some(<<slots[t][1].size, slots[t][1].payload>>))

\* C1: on the memory and filesystem backends, when end_transaction returns Ok, get
\* answers every kind that was put with exactly size bytes in that transaction with
\* the declared size and the exact payload
C1_PutCommitGet ==
    [][\A h \in Handles :
        /\ backend = "memory" /\ EndCalled(h) /\ transaction[h] # None
            => Committed(h, transaction[h][1].guid, transaction[h][1].hash, putlog[h])
        /\ backend = "fs" /\ Moved(h) /\ committing'[h] = None /\ IsOk(ret'.res)
            => Committed(h, committing[h][1].guid, committing[h][1].hash, committing[h][1].slots)
      ]_vars

C1_Witness ==
    /\ backend = "fs"
    /\ ret.op = "end_transaction" /\ IsOk(ret.res)
    /\ \E id \in Ids :
        /\ get("Info", id[1], id[2]) = OkVal(Some(<<1, <<2>>>>))
        /\ Key("Info", id[1], id[2]) \in DOMAIN writer

\* the staging files of the handle's transaction are handed to their removal tasks
Discarded(h) == backend = "fs" => HeldBy(transaction[h]) \subseteq removing'

\* the slots of every open transaction are the kinds put since it was started
SlotsAreLogged ==
    \A h \in Handles, t \in UnityFileType :
        putlog[h][t] # None <=> (transaction[h] # None /\ transaction[h][1].files[to_u8(t) + 1] # None)

\* C2: on the memory and filesystem backends, cancel_transaction and a second
\* start_transaction discard every staged artifact of the handle (the filesystem
\* backend schedules its staging files for deletion) and store nothing; an
\* end_transaction with no transaction open stores nothing; and an end_transaction
\* after a restart commits only kinds put since the restart
C2_CancelRestartDiscard ==
    [][backend # "nop" =>
        /\ SlotsAreLogged
        /\ \A h \in Handles :
            /\ Returned("cancel_transaction") /\ ret'.h = h
                => /\ transaction'[h] = None
                   /\ Discarded(h)
                   /\ ret'.n = Staged(h)
                   /\ UNCHANGED <<database, files, writer>>
                   /\ SameAnswers
            /\ Returned("start_transaction") /\ ret'.h = h
                => /\ transaction'[h] # None
                   /\ transaction'[h][1].files = TransactionFiles_new
                   /\ putlog'[h] = NoLog
                   /\ Discarded(h)
                   /\ ret'.n = Staged(h)
                   /\ UNCHANGED <<database, files, writer>>
                   /\ SameAnswers
            /\ EndCalled(h) /\ transaction[h] = None
                => committing'[h] = None /\ UNCHANGED <<database, files, writer>> /\ SameAnswers
            /\ backend = "memory" /\ EndCalled(h) /\ transaction[h] # None
                => \A t \in UnityFileType, id \in Ids :
                     id = <<transaction[h][1].guid, transaction[h][1].hash>> /\ putlog[h][t] = None
                        => get(t, id[1], id[2])' = get(t, id[1], id[2])
            /\ Moved(h)
                => committing[h][1].slots[Head(committing[h][1].rest)[1]] # None
      ]_vars

C2_Witness ==
    /\ backend = "fs"
    /\ ret.op = "start_transaction" /\ ret.n > 0
    /\ removing # {}
    /\ transaction[ret.h] # None /\ transaction[ret.h][1].files = TransactionFiles_new

\* what a put returns when the handle has no transaction
PutOutsideTransaction(size, len, fault) ==
    IF TooLarge(size) THEN ErrFileTooLarge(max_file_size, size)
    ELSE IF fault # "none" THEN ErrIo("Other")
    ELSE IF len < size THEN ErrIo("UnexpectedEof")
    ELSE ErrNotInTransaction

\* the handle has no transaction open
NotOpen(h) == ~opened[h] /\ transaction[h] = None

C4_ShortStreamFails ==
    [][\A h \in Handles :
        PutReturned(h) /\ ret'.len < ret'.size /\ ret'.fault = "none" /\ ~(backend # "nop" /\ TooLarge(ret'.size))
            => ret'.res = ErrIo("UnexpectedEof") /\ UNCHANGED putlog /\ Unstored
      ]_vars

\* nothing stored is larger than a non-zero maximum
StoredWithinMax ==
    max_file_size # 0 =>
        /\ \A k \in DOMAIN database : Len(database[k]) <= max_file_size
        /\ \A p \in DOMAIN files : Len(files[p]) <= max_file_size

\* C5: with a non-zero max_file_size, a put of the memory or the filesystem backend
\* declaring more fails with FileTooLarge having read no byte and created no staging
\* file or buffer, and nothing larger than the maximum is ever stored; no other put,
\* and no put at all when max_file_size is 0, fails with FileTooLarge
C5_FileTooLarge ==
    [][/\ StoredWithinMax'
       /\ \A h \in Handles :
            PutReturned(h) /\ backend # "nop"
                => IF TooLarge(ret'.size)
                   THEN /\ ret'.res = ErrFileTooLarge(max_file_size, ret'.size)
                        /\ ret'.n = 0
                        /\ UNCHANGED <<transaction, putlog, database, files, tempfiles, removing, writer>>
                        /\ SameAnswers
                   ELSE ~IsFileTooLarge(ret'.res)
      ]_vars

C5_Witness ==
    /\ backend = "fs"
    /\ ret.op = "put" /\ IsFileTooLarge(ret.res)
    /\ opened[ret.h] /\ transaction[ret.h] # None
    /\ tempfiles = <<>>

\* the kinds of the occupied slots
Occupied(fs) == {t \in UnityFileType : fs[to_u8(t) + 1] # None}

\* C6: end_transaction persists exactly the occupied kinds of the transaction under
\* its (guid, hash), each with its staged content, and changes the answer of no
\* other key
C6_CommitExactlyOccupied ==
    [][\A h \in Handles :
        /\ backend = "memory" /\ EndCalled(h) /\ transaction[h] # None
            => LET txn == transaction[h][1]
               IN  \A t \in UnityFileType, id \in Ids :
                     IF id = <<txn.guid, txn.hash>> /\ t \in Occupied(txn.files)
                     THEN get(t, id[1], id[2])' = OkVal(Some(<<Len(txn.files[to_u8(t) + 1][1]), txn.files[to_u8(t) + 1][1]>>))
                     ELSE get(t, id[1], id[2])' = get(t, id[1], id[2])
        /\ backend = "fs" /\ EndCalled(h)
            => /\ SameAnswers
               /\ IF transaction[h] = None \/ Occupied(transaction[h][1].files) = {}
                  THEN committing'[h] = None
                  ELSE /\ committing'[h] # None
                       /\ {committing'[h][1].rest[i][1] : i \in 1..Len(committing'[h][1].rest)} = Occupied(transaction[h][1].files)
                       /\ \A t \in Occupied(transaction[h][1].files) :
                            \E i \in 1..Len(committing'[h][1].rest) :
                                committing'[h][1].rest[i] = <<t, transaction[h][1].files[to_u8(t) + 1][1]>>
        /\ Moved(h)
            => LET c == committing[h][1]
               IN  \A t \in UnityFileType, id \in Ids :
                     IF id = <<c.guid, c.hash>> /\ t = Head(c.rest)[1] /\ files' # files
                     THEN get(t, id[1], id[2])' = OkVal(Some(<<Len(tempfiles[Head(c.rest)[2]]), tempfiles[Head(c.rest)[2]]>>))
                     ELSE get(t, id[1], id[2])' = get(t, id[1], id[2])
      ]_vars

C6_Witness ==
    /\ backend = "fs"
    /\ ret.op = "end_transaction" /\ IsOk(ret.res)
    /\ \E id \in Ids :
        /\ get("Asset", id[1], id[2]) = OkVal(Some(<<1, <<1>>>>))
        /\ get("Info", id[1], id[2]) = OkVal(Some(<<0, <<>>>>))
        /\ get("Resource", id[1], id[2]) = OkVal(None)

\* every hit is of a key some end_transaction committed, and no get fails
HitsAreCommitted ==
    \A t \in UnityFileType, id \in Ids :
        /\ IsOk(get(t, id[1], id[2]))
        /\ get(t, id[1], id[2]) # OkVal(None) => Key(t, id[1], id[2]) \in DOMAIN writer

\* C7: whenever the store changes, get hits only keys that an end_transaction of some
\* handle has committed, and misses, without error, every other key, staged or not; a
\* handler dropped at the end of its connection with a transaction open commits nothing
C7_HitOnlyIfCommitted ==
    [][/\ UNCHANGED <<database, files>> \/ HitsAreCommitted'
       /\ \A h \in Handles :
            Returned("drop") /\ ret'.h = h
                => UNCHANGED <<database, files, writer>> /\ SameAnswers /\ transaction'[h] = None
      ]_vars

C7_Witness ==
    /\ backend = "memory"
    /\ ret.op = "drop" /\ ret.n > 0
    /\ transaction[ret.h] = None
    /\ \A t \in UnityFileType, id \in Ids : get(t, id[1], id[2]) = OkVal(None)

\* the step is the return of the handle's end_transaction, with Ok or with an error
EndReturned(h) ==
    /\ ret'.op = "end_transaction" /\ ret'.h = h
    /\ \/ nops' = nops + 1 /\ committing' = committing
       \/ Moved(h) /\ committing'[h] = None

\* the handle is Idle: no transaction, and no commit of one under way
Idle(h) == transaction[h] = None /\ committing[h] = None

MoveFailed(h) == Moved(h) /\ tempfiles' = tempfiles

\* the kinds of the commit whose staging files were renamed before this step
Renamed(c) == {t \in UnityFileType : c.slots[t] # None} \ {c.rest[i][1] : i \in 1..Len(c.rest)}

\* the staging files of the slots that follow the one the step is about
Following(c) == {c.rest[i][2] : i \in 2..Len(c.rest)}

\* C18: on the filesystem backend, when a create_dir_all or a rename fails during
\* end_transaction, the call returns the I/O error and the handle is Idle; the
\* artifacts renamed before it stay stored (get hits them with their payload), and
\* the staging files of the slots after it are not renamed but handed to deletion
C18_RenameFailure ==
    [][\A h \in Handles :
        MoveFailed(h) =>
            /\ ret' = EndRet(h, ErrIo("Other"), None)
            /\ Idle(h)'
            /\ UNCHANGED <<files, writer>>
            /\ SameAnswers
            /\ Following(committing[h][1]) \subseteq removing' \cap DOMAIN tempfiles'
            /\ \A t \in Renamed(committing[h][1]), id \in Ids :
                id = <<committing[h][1].guid, committing[h][1].hash>> /\ writer[Key(t, id[1], id[2])].h = h
                    => get(t, id[1], id[2])' = OkVal(Some(<<committing[h][1].slots[t][1].size,
                                                           committing[h][1].slots[t][1].payload>>))
      ]_vars

\* the Asset of a transaction was renamed, the rename of its Info failed: the call has
\* returned the error, the Asset hits, the Info misses
C18_Witness ==
    /\ backend = "fs"
    /\ ret.op = "end_transaction" /\ IsErr(ret.res) /\ Idle(ret.h)
    /\ \E tok \in DOMAIN tempfiles : tok \notin removing
    /\ \E id \in Ids :
        /\ get("Asset", id[1], id[2]) = OkVal(Some(<<1, <<1>>>>))
        /\ get("Info", id[1], id[2]) = OkVal(None)

\* the staging files a TempFile still owns: those in the slots of an open transaction
\* and those a commit has taken and not yet moved
Owned ==
    UNION {HeldBy(transaction[h]) : h \in Handles}
        \cup UNION {IF committing[h] = None THEN {}
                    ELSE {committing[h][1].rest[i][2] : i \in 1..Len(committing[h][1].rest)} : h \in Handles}

\* C19: on the filesystem backend every staging file that exists and was not renamed
\* into the store is either still owned by a transaction (whose end, cancel, restart
\* or drop will rename it or schedule its deletion) or has its deletion scheduled: no
\* staging file is left behind with no deletion issued for it
C19_NoStagingFileLeftBehind ==
    backend = "fs" => DOMAIN tempfiles \subseteq Owned \cup removing

\* the payload staged in the slot of kind t of the handle's transaction
StagedPayload(h, t) ==
    LET v == transaction[h][1].files[to_u8(t) + 1][1]
    IN  IF backend = "fs" THEN tempfiles[v] ELSE v

\* every slot of an open transaction holds the payload of the last successful put of
\* its kind, and nothing else holds a slot
SlotsHoldLastPut ==
    \A h \in Handles, t \in UnityFileType :
        IF putlog[h][t] = None
        THEN transaction[h] = None \/ transaction[h][1].files[to_u8(t) + 1] = None
        ELSE /\ transaction[h] # None /\ transaction[h][1].files[to_u8(t) + 1] # None
             /\ StagedPayload(h, t) = putlog[h][t][1].payload
             /\ backend = "fs" => transaction[h][1].files[to_u8(t) + 1][1] \notin removing

\* the step put the kind t on the handle: its slot is replaced, the others are kept
Replaces(h, t) ==
    /\ putlog'[h][t] # None
    /\ putlog'[h][t][1].size = ret'.size
    /\ Len(putlog'[h][t][1].payload) = ret'.size
    /\ putlog'[h][t][1].puts = IF putlog[h][t] = None THEN 1 ELSE putlog[h][t][1].puts + 1
    /\ \A u \in UnityFileType \ {t} :
        /\ putlog'[h][u] = putlog[h][u]
        /\ transaction'[h][1].files[to_u8(u) + 1] = transaction[h][1].files[to_u8(u) + 1]
    /\ backend = "fs" => Held(<<transaction[h][1].files[to_u8(t) + 1]>>) \subseteq removing'

\* C14: on the memory and filesystem backends each kind has one slot in an open
\* transaction; a successful put replaces what the slot of its kind held (the
\* filesystem backend schedules the replaced staging file for deletion), keeps the
\* other slots and changes no answer of get; the slot always holds the payload of
\* the last successful put of its kind, and that payload is what get answers when
\* end_transaction has committed it
C14_RePutReplaces ==
    [][backend # "nop" =>
        /\ SlotsHoldLastPut'
        /\ \A h \in Handles :
            /\ PutReturned(h) /\ IsOk(ret'.res)
                => /\ \E t \in UnityFileType : Replaces(h, t)
                   /\ UNCHANGED <<database, files, writer>>
                   /\ SameAnswers
            /\ backend = "memory" /\ EndCalled(h) /\ transaction[h] # None
                => Committed(h, transaction[h][1].guid, transaction[h][1].hash, putlog[h])
            /\ backend = "fs" /\ Moved(h) /\ ~MoveFailed(h)
                => Committed(h, committing[h][1].guid, committing[h][1].hash,
                             [t \in UnityFileType |->
                                IF t = Head(committing[h][1].rest)[1] THEN committing[h][1].slots[t] ELSE None])
      ]_vars

\* a kind was put twice in one transaction, the transaction was committed, and get
\* answers the key with the payload of the second put
C14_Witness ==
    /\ backend # "nop"
    /\ ret.op = "end_transaction" /\ IsOk(ret.res)
    /\ \E id \in Ids, t \in UnityFileType :
        /\ Key(t, id[1], id[2]) \in DOMAIN writer
        /\ writer[Key(t, id[1], id[2])].slot # None
        /\ writer[Key(t, id[1], id[2])].slot[1].puts = 2
        /\ get(t, id[1], id[2]) = OkVal(Some(<<writer[Key(t, id[1], id[2])].slot[1].size,
                                              writer[Key(t, id[1], id[2])].slot[1].payload>>))

\* the step is a call of the handle, or a part of its commit
StepOf(h) ==
    \/ nops' = nops + 1 /\ committing' = committing /\ ret'.h = h
    \/ committing'[h] # committing[h]

\* the staging files of the handle's open transaction and of its commit under way
OwnedBy(h) ==
    HeldBy(transaction[h])
        \cup (IF committing[h] = None THEN {}
              ELSE {committing[h][1].rest[i][2] : i \in 1..Len(committing[h][1].rest)})

\* the step leaves the handle's transaction as it is: open or not, its slots and what
\* they hold
KeepsTransaction(h) ==
    /\ transaction'[h] = transaction[h]
    /\ committing'[h] = committing[h]
    /\ putlog'[h] = putlog[h]
    /\ opened'[h] = opened[h]
    /\ backend = "fs" =>
        \A tok \in OwnedBy(h) :
            tok \in DOMAIN tempfiles' /\ tempfiles'[tok] = tempfiles[tok] /\ tok \notin removing'

\* C15: the handles of one store start Idle, and so does the clone that serves the
\* next connection; a step that is not a call of a handle (a call of another handle,
\* a part of its commit, a removal task) leaves the handle's transaction as it is;
\* and a get on any handle of the memory or the filesystem backend answers a key that
\* some handle has committed with the size and payload of the last commit to it
C15_ClonesShareStoreOnly ==
    /\ \A h \in Handles : Idle(h) /\ ~opened[h]
    /\ [][\A g \in Handles :
            /\ StepOf(g) \/ KeepsTransaction(g)
            /\ Returned("drop") /\ ret'.h = g => Idle(g)' /\ ~opened'[g] /\ putlog'[g] = NoLog
            /\ backend # "nop" /\ Returned("get") /\ ret'.h = g /\ ret'.key \in DOMAIN writer
                => ret'.res = OkVal(Some(<<writer[ret'.key].slot[1].size, writer[ret'.key].slot[1].payload>>))
        ]_vars

\* a get on one handle has hit an artifact that the other handle committed
C15_Witness ==
    /\ backend # "nop"
    /\ ret.op = "get"
    /\ ret.key \in DOMAIN writer
    /\ writer[ret.key].h # ret.h
    /\ ret.res = OkVal(Some(<<1, <<2>>>>))

\* what get answers for a key that holds the payload of the put logged in slot
Hit(slot) == OkVal(Some(<<slot[1].size, slot[1].payload>>))

\* after the step get answers the kinds in ts of (guid, hash) from slots, whatever the
\* keys held before, and every other key as before
Overwrites(guid, hash, slots, ts) ==
    \A t \in UnityFileType, id \in Ids :
        get(t, id[1], id[2])' =
            IF id = <<guid, hash>> /\ t \in ts THEN Hit(slots[t]) ELSE get(t, id[1], id[2])

\* C12: a commit replaces what its keys held: when the memory backend's end_transaction
\* inserts its slots, and when the filesystem backend's end_transaction renames one
\* staging file, get answers the key from then on with the size and payload put in
\* this transaction, whatever an earlier commit of this or another handle stored
\* there, and answers every other key as before
C12_LastWriterWins ==
    [][\A h \in Handles :
        /\ backend = "memory" /\ EndCalled(h) /\ transaction[h] # None
            => Overwrites(transaction[h][1].guid, transaction[h][1].hash, putlog[h],
                          {t \in UnityFileType : putlog[h][t] # None})
        /\ backend = "fs" /\ Moved(h) /\ ~MoveFailed(h)
            => Overwrites(committing[h][1].guid, committing[h][1].hash, committing[h][1].slots,
                          {Head(committing[h][1].rest)[1]})
      ]_vars

\* a key was committed twice with different payloads, and get answers the later one
C12_Witness ==
    /\ ret.op = "end_transaction" /\ IsOk(ret.res)
    /\ \E t \in UnityFileType :
        LET k == Key(t, ServeId[1], ServeId[2])
        IN  /\ k \in DOMAIN writer
            /\ writer[k].h = ret.h
            /\ writer[k].prev # None
            /\ writer[k].prev[1].payload # writer[k].slot[1].payload
            /\ get(t, ServeId[1], ServeId[2]) = Hit(writer[k].slot)

\* what a get may answer in a race: a miss, or the whole payload of one racing put
WholePayloads == {OkVal(None)} \cup {OkVal(Some(<<Len(p), p>>)) : p \in RacePayloads}

\* every key some handle has committed is stored with the size and the whole payload
\* of the last commit to it, and no other key is stored
LastCommitStored ==
    \A t \in UnityFileType, id \in Ids :
        get(t, id[1], id[2]) =
            IF Key(t, id[1], id[2]) \in DOMAIN writer
            THEN Hit(writer[Key(t, id[1], id[2])].slot)
            ELSE OkVal(None)

\* C16: on the memory backend, in every state of every interleaving of the calls of
\* two handles that commit to the same keys, each committed key is present with the
\* whole payload of the last commit to it (no update is lost), and every get has
\* returned a miss or the whole payload of a single put (no read is torn)
C16_MemoryNoLostUpdateNoTornRead ==
    backend = "memory" =>
        /\ LastCommitStored
        /\ \A k \in DOMAIN writer : writer[k].slot # None /\ writer[k].slot[1].payload \in RacePayloads
        /\ ret.op = "get" => ret.res \in WholePayloads

\* both handles have committed the key with different payloads, and a get has
\* returned the whole payload of the later commit
C16_Witness ==
    /\ backend = "memory"
    /\ ret.op = "get" /\ ret.key \in DOMAIN writer
    /\ writer[ret.key].hs = Handles
    /\ writer[ret.key].prev # None
    /\ writer[ret.key].prev[1].payload # writer[ret.key].slot[1].payload
    /\ ret.res = Hit(writer[ret.key].slot)

\* the step renames the staging file of the first remaining slot of the handle's
\* commit, a file that holds the whole payload put for the slot, to its final path,
\* and changes no other path
RenamesWhole(h) ==
    LET c   == committing[h][1]
        t   == Head(c.rest)[1]
        tok == Head(c.rest)[2]
    IN  /\ tok \in DOMAIN tempfiles /\ tok \notin removing
        /\ tempfiles[tok] = c.slots[t][1].payload
        /\ Len(tempfiles[tok]) = c.slots[t][1].size
        /\ files' = (calc_filepath(t, c.guid, c.hash) :> tempfiles[tok]) @@ files
        /\ tok \notin DOMAIN tempfiles'

\* C17: on the filesystem backend, in every interleaving of the calls of two handles
\* that put (also from streams that end early) and commit to the same keys, the
\* stored files change only by the rename of a staging file that holds the whole
\* payload of a successful put; after every step each committed key holds the whole
\* payload of the commit whose rename came last; and every get returns what the
\* store held when it was called: a miss, or one whole payload
C17_FsRenameOnly ==
    [][backend = "fs" =>
        /\ files' # files => \E h \in Handles : Moved(h) /\ RenamesWhole(h)
        /\ UNCHANGED <<files, writer>> \/ LastCommitStored'
        /\ Returned("get")
            => ret'.res = get(ret'.key[1], ret'.key[2], ret'.key[3]) /\ ret'.res \in WholePayloads
      ]_vars

\* the handles race to commit the same key with different payloads: one has renamed
\* its Asset and has its Info still to rename, the other has renamed its Asset over
\* it, and the key holds the whole payload of the later rename
C17_Witness ==
    LET a == Key("Asset", ServeId[1], ServeId[2])
    IN  /\ backend = "fs"
        /\ a \in DOMAIN writer
        /\ writer[a].hs = Handles
        /\ committing[writer[a].h] = None
        /\ \E g \in Handles \ {writer[a].h} : committing[g] # None
        /\ writer[a].prev[1].payload # writer[a].slot[1].payload
        /\ get("Asset", ServeId[1], ServeId[2]) = Hit(writer[a].slot)

\* the lower-case hex digits
LowerHex == (48..57) \cup (97..102)

\* the two characters at 2i-1 and 2i after the first `off` of name spell the byte b
SpellsByte(name, off, i, b) ==
    /\ name[off + 2 * i - 1] \in LowerHex
    /\ name[off + 2 * i] \in LowerHex
    /\ 16 * HexVal(name[off + 2 * i - 1]) + HexVal(name[off + 2 * i]) = b

\* "bin", "info" and "resource"
ExtOf(t) ==
    CASE t = "Asset" -> <<98, 105, 110>>
      [] t = "Info" -> <<105, 110, 102, 111>>
      [] t = "Resource" -> <<114, 101, 115, 111, 117, 114, 99, 101>>

\* path is base/<shard>/<identity-hex>-<hash-hex>.<ext> of the key
IsPathOf(path, t, guid, hash) ==
    /\ Len(path) = 3
    /\ path[1] = base_path
    /\ Len(path[2]) = 2
    /\ SpellsByte(path[2], 0, 1, guid[1])
    /\ Len(path[3]) = 2 * GUID_LENGTH + 1 + 2 * HASH_LENGTH + 1 + Len(ExtOf(t))
    /\ \A i \in 1..GUID_LENGTH : SpellsByte(path[3], 0, i, guid[i])
    /\ path[3][2 * GUID_LENGTH + 1] = 45
    /\ \A i \in 1..HASH_LENGTH : SpellsByte(path[3], 2 * GUID_LENGTH + 1, i, hash[i])
    /\ path[3][2 * GUID_LENGTH + 1 + 2 * HASH_LENGTH + 1] = 46
    /\ \A i \in 1..Len(ExtOf(t)) : path[3][2 * GUID_LENGTH + 1 + 2 * HASH_LENGTH + 1 + i] = ExtOf(t)[i]

\* the key is the only one of PathIds that calc_filepath maps to path
OnlyKeyAt(path, t, guid, hash) ==
    \A t2 \in UnityFileType, id \in PathIds :
        calc_filepath(t2, id[1], id[2]) = path <=> (t2 = t /\ id = <<guid, hash>>)

\* the step stores payload at the path of the key, which is the path of no other
\* key, and touches no other file
StoresAtPathOf(t, guid, hash, payload) ==
    \E path \in DOMAIN files' :
        /\ IsPathOf(path, t, guid, hash)
        /\ OnlyKeyAt(path, t, guid, hash)
        /\ files'[path] = payload
        /\ \A q \in DOMAIN files' \ {path} : q \in DOMAIN files /\ files'[q] = files[q]
        /\ DOMAIN files \subseteq DOMAIN files'

\* C21: on the filesystem backend the file a commit renames its staging file to is
\* base/<shard>/<identity-hex>-<hash-hex>.<ext>, where the hex strings are the two
\* lower-case digits of each byte, <shard> is the first two of them and <ext> is bin,
\* info or resource for Asset, Info and Resource; this is the path calc_filepath
\* gives to that key and to no other key, and the rename touches no other path, so
\* that the artifacts of all other keys stay as they were
C21_PathOfKey ==
    [][\A h \in Handles :
        Moved(h) /\ ~MoveFailed(h) =>
            LET c == committing[h][1]
                t == Head(c.rest)[1]
            IN  StoresAtPathOf(t, c.guid, c.hash, c.slots[t][1].payload)]_vars

\* two keys that are each other's guid and hash swapped are both stored, with
\* different payloads, and another kind of one of them is not
C21_Witness ==
    \E id \in PathIds :
        /\ id[1] # id[2]
        /\ <<id[2], id[1]>> \in PathIds
        /\ get("Asset", id[1], id[2]) = OkVal(Some(<<1, <<1>>>>))
        /\ get("Asset", id[2], id[1]) = OkVal(Some(<<1, <<2>>>>))
        /\ get("Info", id[1], id[2]) = OkVal(None)

\* the kinds the caller of the handle has put in its open transaction
StagedKinds(h) == {t \in UnityFileType : putlog[h][t] # None}

\* the step puts every staged kind of the handle's transaction into the map, with the
\* payload put for it, and leaves every other key of the map as it was
InsertsAllAtOnce(h) ==
    LET txn  == transaction[h][1]
        keys == {CacheKey_new(txn.guid, txn.hash, t) : t \in StagedKinds(h)}
    IN  /\ DOMAIN database' = DOMAIN database \cup keys
        /\ \A t \in StagedKinds(h) :
            /\ database'[CacheKey_new(txn.guid, txn.hash, t)] = putlog[h][t][1].payload
            /\ writer'[Key(t, txn.guid, txn.hash)].h = h
        /\ \A k \in DOMAIN database \ keys : database'[k] = database[k]

\* C24: on the memory backend the map changes only in the step in which an
\* end_transaction returns, and that one step inserts all the kinds staged in the
\* transaction; a get answers from the map of one state. So every get sees, of a
\* commit, either all its kinds or none, and when two handles commit the same kinds of
\* one (guid, hash), after each commit all these kinds hold the payloads of that one
\* commit, the later one in the end
C24_CommitAtomic ==
    [][backend = "memory" =>
        /\ \A h \in Handles : (EndReturned(h) /\ transaction[h] # None) => InsertsAllAtOnce(h)
        /\ database' # database => \E h \in Handles : EndReturned(h) /\ transaction[h] # None
        /\ Returned("get") =>
            /\ database' = database
            /\ ret'.res = get(ret'.key[1], ret'.key[2], ret'.key[3])
      ]_vars

\* both handles have committed both kinds of the key, each with its own payloads, and
\* the handle whose commit came first gets a kind: it is answered with the payload of
\* the other handle, which is the last writer of both kinds
C24_Witness ==
    /\ backend = "memory"
    /\ ret.op = "get" /\ ret.key \in DOMAIN writer
    /\ \A t \in RaceKinds :
        LET k == Key(t, ServeId[1], ServeId[2])
        IN  /\ k \in DOMAIN writer
            /\ writer[k].hs = Handles
            /\ writer[k].h # ret.h
            /\ writer[k].slot[1].payload = OwnPayload(writer[k].h)
            /\ writer[k].prev # None /\ writer[k].prev[1].payload = OwnPayload(ret.h)
    /\ ret.res = OkVal(Some(<<RaceLen, OwnPayload(writer[ret.key].h)>>))

\* the kinds whose slot of the handle's transaction is occupied
OccupiedKinds(h) == {t \in UnityFileType : transaction[h][1].files[to_u8(t) + 1] # None}

\* the errors of a put that was made in a transaction
PutFailures ==
    {ErrFileTooLarge(max_file_size, size) : size \in Sizes} \cup {ErrIo("UnexpectedEof"), ErrIo("Other")}

\* the step is a put of the handle that fails while its transaction is open
PutFailed(h) == PutReturned(h) /\ IsErr(ret'.res) /\ transaction[h] # None

\* the call that returned last is a failed put of the handle, whose transaction is open
AfterFailedPut(h) == ret.op = "put" /\ ret.h = h /\ IsErr(ret.res) /\ transaction[h] # None

\* the occupied slots are those of the kinds put with success, with their payloads
HoldsWhatWasPut(h) ==
    \A t \in UnityFileType :
        IF putlog[h][t] = None THEN t \notin OccupiedKinds(h)
        ELSE t \in OccupiedKinds(h) /\ StagedPayload(h, t) = putlog[h][t][1].payload

\* the step commits the occupied slots of the handle's transaction and nothing else:
\* the memory backend inserts them, the filesystem backend takes their staging files,
\* whole and not handed to deletion, to rename them
CommitsSlots(h) ==
    LET txn  == transaction[h][1]
        keys == {CacheKey_new(txn.guid, txn.hash, t) : t \in OccupiedKinds(h)}
    IN  IF backend = "memory"
        THEN /\ DOMAIN database' = DOMAIN database \cup keys
             /\ \A t \in OccupiedKinds(h) :
                    database'[CacheKey_new(txn.guid, txn.hash, t)] = StagedPayload(h, t)
             /\ \A k \in DOMAIN database \ keys : database'[k] = database[k]
        ELSE IF OccupiedKinds(h) = {}
        THEN committing'[h] = None /\ files' = files /\ IsOk(ret'.res)
        ELSE /\ committing'[h] # None
             /\ committing'[h][1].guid = txn.guid /\ committing'[h][1].hash = txn.hash
             /\ {committing'[h][1].rest[i] : i \in 1..Len(committing'[h][1].rest)}
                    = {<<t, txn.files[to_u8(t) + 1][1]>> : t \in OccupiedKinds(h)}
             /\ \A tok \in Held(txn.files) :
                    tok \in DOMAIN tempfiles' /\ tempfiles'[tok] = tempfiles[tok] /\ tok \notin removing'

\* C25: on the memory and the filesystem backend, a put that fails inside an open
\* transaction (FileTooLarge, the stream ending before size bytes, an I/O error while
\* staging) leaves the transaction open with its guid, its hash and every slot as
\* before, the slot of the kind put included, and the store as it was; the
\* end_transaction that follows it commits the slots of the successful puts made
\* before, with their payloads, and nothing else
C25_FailedPutKeepsTransaction ==
    [][\A h \in Handles :
        /\ PutFailed(h) =>
            /\ ret'.res \in PutFailures
            /\ KeepsTransaction(h)
            /\ HoldsWhatWasPut(h)'
            /\ UNCHANGED <<database, files, writer>>
        /\ (AfterFailedPut(h) /\ EndCalled(h)) => HoldsWhatWasPut(h) /\ CommitsSlots(h)
      ]_vars

\* a put has failed in a transaction in which every kind in use is staged, the kind of
\* the failed put among them, and the slots are still there
C25_Witness ==
    /\ ret.op = "put" /\ ret.res \in PutFailures
    /\ transaction[ret.h] # None
    /\ OccupiedKinds(ret.h) = RaceKinds
    /\ HoldsWhatWasPut(ret.h)

---------------------------------------------------------------------------
(* Properties of the protocol engine *)

\* "000000fe"
Echo254 == <<48, 48, 48, 48, 48, 48, 102, 101>>

\* the step ends the handshake: the last read of read_version has returned bytes
HandshakeEnds == pc \in {"version", "version2"} /\ pc' \in {"loop", "exit"} /\ rd' # rd

\* the bytes read_version parses in that step
VersionBytes == vbuf \o SubSeq(rd, 1, Len(rd) - Len(rd'))

IsWrongVersion(r) == r # None /\ IsErr(r[1]) /\ r[1][2] = "WrongVersion"

\* C8: a handshake whose bytes read_version parses to 254 succeeds, and the server has written
\* and flushed exactly 000000fe when it starts to read commands; a handshake that
\* requests another version fails with WrongVersion of that version; and until the
\* handshake has succeeded no byte is written, no command byte read and no backend
\* operation invoked, which stays so once it has failed
C8_Handshake ==
    [][/\ HandshakeEnds /\ from_utf8_ok(VersionBytes) /\ from_str_radix(VersionBytes) # None
            => IF from_str_radix(VersionBytes)[1] = 254
               THEN pc' = "loop" /\ out' = Echo254 /\ wbuf' = <<>> /\ result' = None /\ ncmd' = 0 /\ nops' = 0
               ELSE pc' = "exit" /\ result' = Some(<<"Err", "WrongVersion", from_str_radix(VersionBytes)[1]>>)
       /\ (pc' \in {"version", "version2"} \/ IsWrongVersion(result'))
            => out' = <<>> /\ wbuf' = <<>> /\ ncmd' = 0 /\ nops' = 0
       /\ (ncmd' > 0 \/ nops' > 0 \/ pc' = "loop")
            => Len(out') >= 8 /\ SubSeq(out', 1, 8) = Echo254
      ]_vars

C8_Witness ==
    /\ pc = "loop"
    /\ out = Echo254 /\ wbuf = <<>>
    /\ rd # <<>> /\ ncmd = 0 /\ nops = 0

\* the loop takes its next command from a stream that has ended
AtEndOfStream == pc = "loop" /\ closed /\ ncmd' = ncmd + 1

\* the bytes left are fewer than the command they start needs
EndsInsideCommand ==
    /\ rd # <<>>
    /\ \/ rd[1] = Byte_g /\ Len(rd) < 2 + GUID_LENGTH + HASH_LENGTH
       \/ rd[1] = Byte_t /\ (Len(rd) < 2 \/ (rd[2] = Byte_s /\ Len(rd) < 2 + GUID_LENGTH + HASH_LENGTH))
       \/ rd[1] = Byte_p /\ Len(rd) < 2 + U64_STRING_LENGTH
       \/ /\ rd[1] = Byte_p /\ Len(rd) >= 2 + U64_STRING_LENGTH
          /\ IsOk(read_size_string(SubSeq(rd, 3, 2 + U64_STRING_LENGTH)))
          /\ Len(rd) - (2 + U64_STRING_LENGTH) < read_size_string(SubSeq(rd, 3, 2 + U64_STRING_LENGTH))[2]

\* C9: handle returns Ok only when the stream ends where a command byte is awaited
\* (or on 'q'), and when the stream ends inside a command, the declared payload of a
\* put included, handle returns an error, on every backend
C9_EofInsideCommandFails ==
    [][/\ AtEndOfStream /\ EndsInsideCommand
            => pc' = "exit" /\ result' # None /\ IsErr(result'[1])
       /\ result = None /\ result' = Some(OkUnit)
            => pc = "loop" /\ ((rd = <<>> /\ closed) \/ (rd # <<>> /\ rd[1] = Byte_q))
      ]_vars

\* the loop reads a 'g' or a 'p' and after it a byte that is no kind tag
UnknownKindAfter(cmd) ==
    /\ pc = "loop" /\ ncmd' = ncmd + 1
    /\ Len(rd) >= 2 /\ rd[1] = cmd /\ rd[2] \notin {97, 105, 114}

\* C10 as amended: a byte other than 'a', 'i', 'r' makes handle fail with
\* UnknownFileTypeByte of that byte after 'g' and with UnknownPushCommand of that
\* byte after 'p', in both cases without invoking a backend operation
C10_UnknownKindByte ==
    [][/\ UnknownKindAfter(Byte_g)
            => result' = Some(<<"Err", "UnknownFileTypeByte", rd[2]>>) /\ pc' = "exit" /\ nops' = nops /\ UNCHANGED backendVars
       /\ UnknownKindAfter(Byte_p)
            => result' = Some(<<"Err", "UnknownPushCommand", rd[2]>>) /\ pc' = "exit" /\ nops' = nops /\ UNCHANGED backendVars
      ]_vars

C10_Witness ==
    /\ pc = "exit"
    /\ result = Some(<<"Err", "UnknownPushCommand", 120>>)
    /\ out = Echo254

\* C10 as stated: after 'g' and after 'p' alike the failure is UnknownFileTypeByte
C10_UnknownFileTypeByteAfterBoth ==
    [][UnknownKindAfter(Byte_g) \/ UnknownKindAfter(Byte_p)
            => result' = Some(<<"Err", "UnknownFileTypeByte", rd[2]>>) /\ pc' = "exit" /\ nops' = nops /\ UNCHANGED backendVars
      ]_vars

\* the step is the handler's answer to a whole 'g' command at the head of rd
GetAnswered ==
    /\ pc = "loop" /\ ncmd' = ncmd + 1
    /\ Len(rd) >= 2 + GUID_LENGTH + HASH_LENGTH /\ rd[1] = Byte_g
    /\ nops' = nops + 1 /\ IsOk(ret'.res)

\* the kind tag, the identity and the hash of the 'g' command at the head of rd
Requested == SubSeq(rd, 2, 2 + GUID_LENGTH + HASH_LENGTH)

\* the bytes the step flushed to the client
Flushed == SubSeq(out', Len(out) + 1, Len(out'))

\* C11: the answer to a 'g' echoes the request: on a miss '-', the requested kind tag,
\* identity and hash are written and flushed; on a hit '+', the kind tag, the size as
\* 16 hex digits, the identity and the hash are written, and the copy that follows
\* flushes them and then exactly as many payload bytes as those 16 digits announce,
\* also when another connection has committed the key in between
C11_GetResponse ==
    [][/\ GetAnswered =>
            \/ /\ ret'.res[2] = None /\ pc' = "loop" /\ wbuf' = <<>>
               /\ Flushed = wbuf \o <<Minus, Requested[1]>> \o Tail(Requested)
            \/ /\ ret'.res[2] # None /\ pc' = "copy" /\ out' = out
               /\ wbuf' = wbuf \o <<Plus, Requested[1]>> \o size_string(ret'.res[2][1][1]) \o Tail(Requested)
       /\ pc = "copy" /\ pc' # "copy" =>
            /\ pc' = "loop" /\ wbuf' = <<>>
            /\ Len(wbuf) = 2 + U64_STRING_LENGTH + GUID_LENGTH + HASH_LENGTH
            /\ SubSeq(Flushed, 1, Len(wbuf)) = wbuf
            /\ from_str_radix(SubSeq(wbuf, 3, 2 + U64_STRING_LENGTH)) = Some(Len(Flushed) - Len(wbuf))
      ]_vars

\* a get has found an artifact of one byte and written the header that announces
\* it, and before the copy another connection has committed an empty artifact to the
\* key
C11_Witness ==
    /\ pc = "copy"
    /\ hit # None /\ hit[1].size = 1
    /\ get(hit[1].t, hit[1].guid, hit[1].hash) = OkVal(Some(<<0, <<>>>>))

\* the step reads a command byte
CommandRead == ncmd' = ncmd + 1

\* the step is a put of the connection that returned Ok for the 'p' at the head of rd
PutServed ==
    /\ pc = "loop" /\ CommandRead /\ rd[1] = Byte_p
    /\ nops' = nops + 1 /\ ret'.op = "put" /\ IsOk(ret'.res)

\* the size the 'p' command at the head of rd declares
Declared == from_str_radix(SubSeq(rd, 3, 2 + U64_STRING_LENGTH))[1]

\* C20: the loop reads a command byte only when the command before it has completed:
\* nothing written for the client is unflushed, no artifact found by a 'g' is still
\* to be copied, and no commit is under way; the copy of a 'g' reads no byte of the
\* stream; and a put that returns Ok has taken the declared number of payload bytes
\* and left the byte after them as the next one to read, or, when the stream ended
\* inside the payload, has left no byte at all
C20_CommandsInSequence ==
    [][/\ CommandRead => pc = "loop" /\ wbuf = <<>> /\ hit = None /\ committing[Conn] = None
       /\ pc = "copy" \/ pc = "commit" => rd' = rd \/ nsent' = nsent + 1
       /\ GetAnswered => rd' = SubSeq(rd, 3 + GUID_LENGTH + HASH_LENGTH, Len(rd))
       /\ PutServed =>
            IF Len(rd) >= 2 + U64_STRING_LENGTH + Declared
            THEN /\ ret'.n = Declared
                 /\ rd' = SubSeq(rd, 3 + U64_STRING_LENGTH + Declared, Len(rd))
            ELSE closed /\ rd' = <<>> /\ backend = "nop"
      ]_vars

\* the client sent a put of two bytes and an end_transaction behind it without
\* waiting: the put has returned Ok, and the next byte to read is the 't'
C20_Witness ==
    /\ pc = "loop"
    /\ ret.op = "put" /\ ret.h = Conn /\ IsOk(ret.res) /\ ret.n = 2
    /\ rd = <<Byte_t, Byte_e>>

\* the bytes the client has sent, while the handshake is going on: those read_version
\* has read and those it has not
SentBytes == vbuf \o rd

\* the client has sent one message, of 1 to 8 hex digits, and waits
OnlyDigitsSent ==
    /\ nsent = 1
    /\ Len(SentBytes) \in 1..VERSION_BUF
    /\ \A i \in 1..Len(SentBytes) : HexVal(SentBytes[i]) >= 0

\* a read of read_version returns no byte in this step
ReadsNothing == pc \in {"version", "version2"} /\ pc' = "exit" /\ rd' = rd

\* C22: when a client has sent 1 to 8 hex digits and waits, the handshake ends as the
\* version spelled by all those digits demands, whatever the numbers of bytes the
\* reads of read_version return: 254 is accepted and echoed, any other version fails
\* with WrongVersion of that version; and the handshake fails with ReadVersionError
\* exactly when a read returns no byte
C22_ChunkingIndependent ==
    [][/\ (HandshakeEnds /\ OnlyDigitsSent)
            => IF HexNum(SentBytes, 0) = VERSION
               THEN pc' = "loop" /\ out' = Echo254
               ELSE pc' = "exit" /\ result' = Some(<<"Err", "WrongVersion", HexNum(SentBytes, 0)>>)
       /\ (pc \in {"version", "version2"} /\ pc' = "exit")
            => (result' = Some(<<"Err", "ReadVersionError">>) <=> ReadsNothing)
      ]_vars

\* the client has sent the hex digits v, fewer than 8, and a command right after them
FollowedByCommand(v) ==
    /\ nsent = 2
    /\ Len(v) < VERSION_BUF
    /\ \A i \in 1..Len(v) : HexVal(v[i]) >= 0
    /\ Len(SentBytes) > Len(v)
    /\ SubSeq(SentBytes, 1, Len(v)) = v
    /\ HexVal(SentBytes[Len(v) + 1]) < 0

\* C23: when a client has sent a version of fewer than 8 hex digits with command
\* bytes right after it, read_version parses no byte beyond the version digits, and
\* after a successful handshake the command loop starts at the first byte the client
\* sent after them
C23_OnlyVersionDigitsConsumed ==
    [][\A v \in Versions :
        (HandshakeEnds /\ FollowedByCommand(v))
            => /\ Len(VersionBytes) <= Len(v)
               /\ pc' = "loop" => rd' = SubSeq(SentBytes, Len(v) + 1, Len(SentBytes))
      ]_vars

====
